---- MODULE Spec2Model ----
(***************************************************************************)
(* Relay bot: the webhook cache (WebhookManager), the message dispatcher   *)
(* (MessageHandler.process_message), the notification fan-out              *)
(* (EarthMCMonitor.send_notification) and the poll loop of the monitor.    *)
(*                                                                         *)
(* Every coroutine runs on the one asyncio event loop of the bot: a step   *)
(* of the model is the code between two awaits of one coroutine, and the   *)
(* remote call awaited takes effect and answers in the step that resumes   *)
(* the coroutine.                                                          *)
(***************************************************************************)
EXTENDS Integers, Sequences, FiniteSets, TLC

VARIABLES
    webhooks,   \* WebhookManager.webhooks: channel id -> cached handle (a dict)
    remote,     \* the platform: channel id -> the webhooks of the channel, in listing order
    nextId,     \* the id the platform gives the next webhook it creates
    envDeletes, \* webhooks deleted on the platform by somebody else so far
    budget,     \* the operations each coroutine may still start
    task,       \* one record per coroutine: its position and its locals
    poll,       \* EarthMCMonitor: its snapshots and the position of _monitor_loop
    state_file, \* what ./tbi/data/state.json holds
    monitor,    \* EarthMCMonitor: its loop tasks, its session, and the coroutines
                \* (stop, start, restart) scheduled on the event loop
    message,    \* an inbound message: its texts and what is built from them
    config      \* Config.data as loaded: the groups subscribed to each population

vars == <<webhooks, remote, nextId, envDeletes, budget, task, poll, state_file, monitor, message,
          config>>

----------------------------------------------------------------------------
(* Bounds *)

\* webhooks the platform creates in one run
MaxCreated == 2
\* webhooks somebody else deletes on the platform in one run
MaxEnvDeletes == 1
\* poll cycles of one run
MaxCycles == 2
\* on_ready, reload and force-check requests after the first on_ready
MaxRequests == 2
\* pieces an inbound text is put together from
MaxPieces == 3
\* relay requests handled one after the other when nothing else runs
MaxOps == 2

----------------------------------------------------------------------------
(* Configuration (config.py) and the bot's channel table *)

\* Config.webhook_name, the display name of the relay's own webhooks
webhook_name == "Relay Bot"

\* the earthmc_towns / earthmc_nations flags of a config file: the names of
\* the groups that set them
Subscriptions(towns, nations) == [earthmc_towns |-> towns, earthmc_nations |-> nations]

\* the config file the bot is run with, and one whose only subscription is
\* that of g1 to the towns
LoadedConfig == Subscriptions({"g2", "g3"}, {"g2"})
TownsOnlyConfig == Subscriptions({"g1"}, {})

\* Config.relay_groups, in the order of the config file's dict
relay_groups ==
    << [name |-> "g1", source_channels |-> {"s1"},
        destination_channels |-> <<"1", "2">>,
        earthmc_towns |-> "g1" \in config.earthmc_towns,
        earthmc_nations |-> "g1" \in config.earthmc_nations],
       [name |-> "g2", source_channels |-> {"s2"},
        destination_channels |-> <<"3", "", "1", "4">>,
        earthmc_towns |-> "g2" \in config.earthmc_towns,
        earthmc_nations |-> "g2" \in config.earthmc_nations],
       [name |-> "g3", source_channels |-> {"s3"},
        destination_channels |-> <<"">>,
        earthmc_towns |-> "g3" \in config.earthmc_towns,
        earthmc_nations |-> "g3" \in config.earthmc_nations] >>

\* int(ch_id) on the decimal strings of the configuration
ToInt(s) == CASE s = "1" -> 1 [] s = "2" -> 2 [] s = "3" -> 3 [] s = "4" -> 4

\* bot.get_channel(id) and the isinstance test on what it returns: channels
\* 1 and 2 are text channels, 3 is unknown to the bot, 4 is a voice channel
ChannelKind(c) == CASE c \in {1, 2} -> "text" [] c = 3 -> "none" [] c = 4 -> "voice"

TextChannels == {1, 2}

Tasks == {"relay", "notify"}

----------------------------------------------------------------------------
(* Values *)

\* Python's None where a webhook is expected
NoWebhook == [id |-> 0, name |-> "", token |-> FALSE]

Seq2Set(s) == {s[i] : i \in DOMAIN s}

RECURSIVE SelectSeqIdx(_, _, _)
\* the elements s[i], i >= from, whose id is not `id`
SelectSeqIdx(s, from, id) ==
    IF from > Len(s) THEN <<>>
    ELSE IF s[from].id = id THEN SelectSeqIdx(s, from + 1, id)
         ELSE <<s[from]>> \o SelectSeqIdx(s, from + 1, id)

\* the ids of every webhook that exists on the platform
RemoteIds == UNION {{remote[c][i].id : i \in DOMAIN remote[c]} : c \in TextChannels}

\* webhooks that exist before the process starts: another integration's
\* webhook, a relay-named webhook whose token the bot cannot see, and a
\* relay-named webhook with its token (left by an earlier run)
PreOther == [id |-> 1, name |-> "Captain Hook", token |-> TRUE]
PreNoToken == [id |-> 2, name |-> webhook_name, token |-> FALSE]
PreUsable == [id |-> 3, name |-> webhook_name, token |-> TRUE]
PreUsable2 == [id |-> 4, name |-> webhook_name, token |-> TRUE]

InitialListings ==
    { <<>>, <<PreOther, PreNoToken>>, <<PreNoToken, PreUsable>>,
      <<PreUsable, PreUsable2>> }

\* the listings of channel 1 under which two coroutines are interleaved
RaceListings == { <<>>, <<PreNoToken>> }

\* the platform numbers the webhooks it creates after the existing ones
FirstNewId == PreUsable2.id + 1

NoResult == [success |-> FALSE, summary |-> "none", count |-> 0, total |-> 0]

\* a coroutine that has not run yet
IdleTask ==
    [pc |-> "idle",
     \* process_message
     raw |-> "none", channel_id |-> "", dest_channel_ids |-> <<>>, i |-> 0,
     success_count |-> 0, fail_count |-> 0, result |-> NoResult,
     \* send_notification
     notif_type |-> "", groups |-> <<>>, g |-> 0,
     \* get_webhook / send_webhook_message
     channel |-> 0, webhook |-> NoWebhook, listing |-> <<>>, k |-> 0,
     \* what the current operation and its last get_webhook call did
     status |-> "none", ret |-> NoWebhook, cached |-> NoWebhook,
     evicted |-> NoWebhook, probe_result |-> "none", reprobed |-> FALSE,
     last_fetch |-> "none", nlist |-> 0, ncreate |-> 0, ndelete |-> 0,
     lookups |-> 0, attempts |-> <<>>, delivered |-> 0]

----------------------------------------------------------------------------
(* Config lookups (config.py) *)

RECURSIVE FirstGroupFrom(_, _)
\* Config.get_relay_group_for_channel: the first group, in dict order, that
\* lists the channel as a source; 0 stands for None
FirstGroupFrom(channel_id, n) ==
    IF n > Len(relay_groups) THEN 0
    ELSE IF channel_id \in relay_groups[n].source_channels THEN n
         ELSE FirstGroupFrom(channel_id, n + 1)

get_relay_group_for_channel(channel_id) == FirstGroupFrom(channel_id, 1)

RECURSIVE IntsOf(_)
\* [int(ch_id) for ch_id in dest_channels if ch_id]
IntsOf(s) ==
    IF s = <<>> THEN <<>>
    ELSE IF Head(s) = "" THEN IntsOf(Tail(s))
         ELSE <<ToInt(Head(s))>> \o IntsOf(Tail(s))

\* Config.get_destination_channel_ids, for the group at position n
get_destination_channel_ids(n) ==
    IF n \notin DOMAIN relay_groups THEN <<>>
    ELSE IntsOf(relay_groups[n].destination_channels)

RECURSIVE SubscribedFrom(_, _)
\* Config.get_notification_relay_groups: the groups whose earthmc_towns /
\* earthmc_nations flag is set, in dict order
SubscribedFrom(notif_type, n) ==
    IF n > Len(relay_groups) THEN <<>>
    ELSE LET flag == IF notif_type = "town" THEN relay_groups[n].earthmc_towns
                     ELSE relay_groups[n].earthmc_nations
         IN (IF flag THEN <<n>> ELSE <<>>) \o SubscribedFrom(notif_type, n + 1)

\* (mutant) every relay group is notified, whatever its flags
get_notification_relay_groups_EveryGroup(notif_type) ==
    [n \in DOMAIN relay_groups |-> n]

get_notification_relay_groups(notif_type) == SubscribedFrom(notif_type, 1)

----------------------------------------------------------------------------
(* The platform's answers *)

\* webhook.fetch(): NotFound once the webhook is gone from the platform,
\* otherwise it answers or fails (Forbidden, any other HTTP error)
FetchOutcomes(w) ==
    IF w.id \in RemoteIds THEN {"ok", "forbidden", "error"} ELSE {"notfound"}

\* channel.webhooks() and channel.create_webhook(): an answer, Forbidden, or
\* any other error
ManageOutcomes == {"ok", "forbidden", "error"}

\* webhook.delete(): fails when the webhook is already gone, may fail otherwise
DeleteOutcomes(w) == IF w.id \in RemoteIds THEN {"ok", "fail"} ELSE {"fail"}

\* webhook.send(): an HTTPException (NotFound) once the webhook is gone
SendOutcomes(w) ==
    IF w.id \in RemoteIds THEN {"ok", "forbidden", "error"} ELSE {"notfound"}

----------------------------------------------------------------------------
(* WebhookManager (webhook_manager.py) *)

\* `channel_id in self.webhooks`
Cached(c) == webhooks[c] # NoWebhook

\* `del self.webhooks[channel_id]`
Evict(cache, c) == [cache EXCEPT ![c] = NoWebhook]

\* (mutant) the resolved handle is returned without being cached
Put_NotStored(cache, c, h) == cache

\* `self.webhooks[channel_id] = relay_webhook`
Put(cache, c, h) == [cache EXCEPT ![c] = h]

\* (mutant) the token test of the fast path inverted
ProbeValid_TokenTestInverted(o, w) == o = "ok" /\ ~w.token

\* the cached handle is returned at once: its fetch answered and it has a token
ProbeValid(o, w) == o = "ok" /\ w.token

\* `webhook.name == self.webhook_name`
NameMatches(w) == w.name = webhook_name

\* (mutant) a listed webhook is taken whenever its fetch answers
ListedUsable_IgnoresToken(o, w) == o = "ok"

\* (mutant) a listed webhook is taken whenever it has a token
ListedUsable_IgnoresFetch(o, w) == w.token

\* a listed webhook is taken: its fetch answered and it has a token
ListedUsable(o, w) == o = "ok" /\ w.token

\* the webhook create_webhook returns: the platform always gives it a token
NewWebhook(id) == [id |-> id, name |-> webhook_name, token |-> TRUE]

\* (mutant) the loop passes over the destination after the current one
NextDest_SkipsOne(i, ok, n) == i + 2

\* (mutant) the loop is left at the first destination that fails
NextDest_StopsOnFailure(i, ok, n) == IF ok THEN i + 1 ELSE n + 1

\* the next destination of process_message's loop (a failure or a `continue`
\* moves on like a success does)
NextDest(i, ok, n) == i + 1

\* (mutant) success only when no destination failed
AggregateResult_AllOrNothing(success_count, fail_count, n) ==
    IF fail_count = 0
    THEN [success |-> TRUE, summary |-> "Sent to", count |-> success_count, total |-> n]
    ELSE [success |-> FALSE, summary |-> "Failed to send to all",
          count |-> fail_count, total |-> 0]

\* the (success, message) pair process_message returns after the loop
AggregateResult(success_count, fail_count, n) ==
    IF success_count > 0
    THEN [success |-> TRUE, summary |-> "Sent to", count |-> success_count, total |-> n]
    ELSE [success |-> FALSE, summary |-> "Failed to send to all",
          count |-> fail_count, total |-> 0]

\* the operation returns to whoever called it
Finish(tk, result) ==
    [tk EXCEPT !.pc = "done", !.result = result, !.webhook = NoWebhook,
               !.channel = 0]

\* get_webhook up to its first await: the cache lookup
GetWebhookEnter(tk, c) ==
    LET tk0 == [tk EXCEPT !.channel = c, !.status = "running"]
    IN IF Cached(c)
       THEN [tk0 EXCEPT !.webhook = webhooks[c], !.cached = webhooks[c],
                        !.pc = "probe"]
       ELSE [tk0 EXCEPT !.nlist = 1, !.pc = "list"]

RECURSIVE DispatchFrom(_)
\* `for dest_channel_id in dest_channel_ids:` of process_message from
\* position tk.i up to its next await (inside send_webhook_message), or the
\* return after the loop
DispatchFrom(tk) ==
    LET n == Len(tk.dest_channel_ids)
        d == tk.dest_channel_ids[tk.i]
        tk1 == [tk EXCEPT !.attempts = Append(@, tk.i)]
    IN IF tk.i > n
       THEN Finish(tk, AggregateResult(tk.success_count, tk.fail_count, n))
       ELSE IF ChannelKind(d) # "text"
       THEN DispatchFrom([tk1 EXCEPT !.fail_count = @ + 1,
                                     !.i = NextDest(@, FALSE, n)])
       ELSE GetWebhookEnter(tk1, d)

RECURSIVE NotifyFrom(_)
\* the two nested loops of send_notification from group tk.g, destination
\* tk.i, up to the next await (inside get_webhook), or the return after them
NotifyFrom(tk) ==
    LET dests == get_destination_channel_ids(tk.groups[tk.g])
        d == dests[tk.i]
    IN IF tk.g > Len(tk.groups)
       THEN Finish(tk, [success |-> FALSE, summary |-> "returned", count |-> 0, total |-> 0])
       ELSE IF tk.i > Len(dests)
       THEN NotifyFrom([tk EXCEPT !.g = @ + 1, !.i = 1])
       ELSE IF ChannelKind(d) # "text"
       THEN NotifyFrom([tk EXCEPT !.i = @ + 1])
       ELSE GetWebhookEnter(tk, d)

\* process_message and send_notification after `await webhook.send(...)`:
\* process_message counts the outcome and goes on with the next destination,
\* send_notification sleeps
AfterSend(t, tk, ok) ==
    IF t = "relay"
    THEN DispatchFrom([tk EXCEPT !.success_count = IF ok THEN @ + 1 ELSE @,
                                 !.fail_count = IF ok THEN @ ELSE @ + 1,
                                 !.i = NextDest(@, ok, Len(tk.dest_channel_ids)),
                                 !.webhook = NoWebhook])
    ELSE [tk EXCEPT !.webhook = NoWebhook, !.pc = "sn_sleep"]

\* get_webhook returned None: send_webhook_message returns False;
\* send_notification logs and `continue`s, which skips its sleep
OnNoHandle(t, tk) ==
    IF t = "relay" THEN AfterSend(t, tk, FALSE)
    ELSE NotifyFrom([tk EXCEPT !.webhook = NoWebhook, !.i = @ + 1])

\* get_webhook returns h (NoWebhook for None) to its caller
GetWebhookReturn(tk, h, how) ==
    [tk EXCEPT !.status = how, !.ret = h, !.webhook = NoWebhook,
               !.listing = <<>>, !.k = 0, !.pc = "returned"]

\* get_webhook raises: the KeyError of a `del` inside an except clause
GetWebhookRaise(tk) == GetWebhookReturn(tk, NoWebhook, "raised")

\* (mutant) the listing loop takes every webhook, whatever its name
NextMatch_AnyName(listing, k) == IF k > Len(listing) THEN 0 ELSE k

RECURSIVE NextMatch(_, _)
\* `for webhook in webhooks: if webhook.name == self.webhook_name:` from
\* position k on; 0 when the loop runs out
NextMatch(listing, k) ==
    IF k > Len(listing) THEN 0
    ELSE IF NameMatches(listing[k]) THEN k
         ELSE NextMatch(listing, k + 1)

\* the listing loop from position `from` to its next await: the fetch of the
\* next name-matching webhook, or create_webhook after the loop
ContinueLoop(tk, from) ==
    LET k == NextMatch(tk.listing, from)
    IN IF k = 0
       THEN [tk EXCEPT !.webhook = NoWebhook, !.k = 0, !.ncreate = @ + 1,
                       !.pc = "create"]
       ELSE [tk EXCEPT !.webhook = tk.listing[k], !.k = k,
                       !.reprobed = @ \/ tk.listing[k].id = tk.evicted.id,
                       !.pc = "loop_fetch"]

\* `await webhook.fetch()` on the cached handle answers
ProbeReturn(t, o) ==
    LET tk == task[t]
        c == tk.channel
        tk1 == [tk EXCEPT !.probe_result = IF o = "ok" THEN "ok" ELSE "failed"]
    IN /\ tk.pc = "probe"
       /\ o \in FetchOutcomes(tk.webhook)
       /\ IF ProbeValid(o, tk.webhook)
          THEN /\ webhooks' = webhooks
               /\ task' = [task EXCEPT ![t] = GetWebhookReturn(tk1, tk.webhook, "fast")]
          ELSE IF Cached(c)
               THEN /\ webhooks' = Evict(webhooks, c)
                    /\ task' = [task EXCEPT ![t] =
                                   [tk1 EXCEPT !.evicted = tk.webhook,
                                               !.webhook = NoWebhook,
                                               !.nlist = @ + 1, !.pc = "list"]]
               ELSE /\ webhooks' = webhooks
                    /\ task' = [task EXCEPT ![t] =
                                   GetWebhookRaise([tk1 EXCEPT !.evicted = tk.webhook])]
       /\ UNCHANGED <<remote, nextId, envDeletes, budget, poll, state_file, monitor, message, config>>

\* `await channel.webhooks()` answers
ListReturn(t, o) ==
    LET tk == task[t]
    IN /\ tk.pc = "list"
       /\ o \in ManageOutcomes
       /\ task' = [task EXCEPT ![t] =
                      IF o = "ok"
                      THEN ContinueLoop([tk EXCEPT !.listing = remote[tk.channel]], 1)
                      ELSE GetWebhookReturn(tk, NoWebhook,
                               IF o = "forbidden" THEN "list_forbidden" ELSE "list_error")]
       /\ UNCHANGED <<webhooks, remote, nextId, envDeletes, budget, poll, state_file, monitor, message, config>>

\* `await webhook.fetch()` on a listed, name-matching webhook answers
LoopFetchReturn(t, o) ==
    LET tk == [task[t] EXCEPT !.last_fetch = IF o = "ok" THEN "ok" ELSE "failed"]
    IN /\ tk.pc = "loop_fetch"
       /\ o \in FetchOutcomes(tk.webhook)
       /\ IF ListedUsable(o, tk.webhook)
          THEN /\ webhooks' = Put(webhooks, tk.channel, tk.webhook)
               /\ task' = [task EXCEPT ![t] = GetWebhookReturn(tk, tk.webhook, "found")]
          ELSE /\ webhooks' = webhooks
               /\ task' = [task EXCEPT ![t] =
                              [tk EXCEPT !.ndelete = @ + 1, !.pc = "loop_delete"]]
       /\ UNCHANGED <<remote, nextId, envDeletes, budget, poll, state_file, monitor, message, config>>

\* `await webhook.delete(...)` answers; `except: pass` swallows its failure
LoopDeleteReturn(t, o) ==
    LET tk == task[t]
    IN /\ tk.pc = "loop_delete"
       /\ o \in DeleteOutcomes(tk.webhook)
       /\ remote' = IF o = "ok"
                    THEN [remote EXCEPT ![tk.channel] = SelectSeqIdx(@, 1, tk.webhook.id)]
                    ELSE remote
       /\ task' = [task EXCEPT ![t] = ContinueLoop(tk, tk.k + 1)]
       /\ UNCHANGED <<webhooks, nextId, envDeletes, budget, poll, state_file, monitor, message, config>>

\* `await channel.create_webhook(...)` answers
CreateReturn(t, o) ==
    LET tk == task[t]
        new == NewWebhook(nextId)
    IN /\ tk.pc = "create"
       /\ o \in ManageOutcomes
       /\ o = "ok" => nextId < FirstNewId + MaxCreated
       /\ IF o = "ok"
          THEN /\ remote' = [remote EXCEPT ![tk.channel] = Append(@, new)]
               /\ nextId' = nextId + 1
               /\ webhooks' = Put(webhooks, tk.channel, new)
               /\ task' = [task EXCEPT ![t] = GetWebhookReturn(tk, new, "created")]
          ELSE /\ UNCHANGED <<remote, nextId, webhooks>>
               /\ task' = [task EXCEPT ![t] =
                              GetWebhookReturn(tk, NoWebhook,
                                  IF o = "forbidden" THEN "create_forbidden"
                                  ELSE "create_error")]
       /\ UNCHANGED <<envDeletes, budget, poll, state_file, monitor, message, config>>

\* what get_webhook's caller keeps of the call: nothing but the handle
ClearCall(tk) ==
    [tk EXCEPT !.status = "none", !.ret = NoWebhook, !.cached = NoWebhook,
               !.evicted = NoWebhook, !.probe_result = "none",
               !.reprobed = FALSE, !.last_fetch = "none",
               !.nlist = 0, !.ncreate = 0, !.ndelete = 0]

\* the caller of get_webhook goes on: send_webhook_message and
\* send_notification give up on None, catch what get_webhook raised, and
\* otherwise call `webhook.send(...)` and await it
Resume(t) ==
    LET tk == task[t]
    IN /\ tk.pc = "returned"
       /\ task' = [task EXCEPT ![t] =
            IF tk.status = "raised" THEN AfterSend(t, ClearCall(tk), FALSE)
            ELSE IF tk.ret = NoWebhook THEN OnNoHandle(t, ClearCall(tk))
            ELSE [ClearCall(tk) EXCEPT !.webhook = tk.ret, !.pc = "send"]]
       /\ UNCHANGED <<webhooks, remote, nextId, envDeletes, budget, poll, state_file, monitor, message, config>>

\* `await webhook.send(...)` answers
SendReturn(t, o) ==
    LET tk == task[t]
    IN /\ tk.pc = "send"
       /\ o \in SendOutcomes(tk.webhook)
       /\ task' = [task EXCEPT ![t] =
                      AfterSend(t, [tk EXCEPT !.delivered = IF o = "ok" THEN @ + 1 ELSE @],
                                o = "ok")]
       /\ UNCHANGED <<webhooks, remote, nextId, envDeletes, budget, poll, state_file, monitor, message, config>>

\* somebody deletes a relay-named webhook on the platform (what happens to
\* the other webhooks of a channel never reaches the relay)
EnvDelete(c, k) ==
    /\ envDeletes < MaxEnvDeletes
    /\ k \in DOMAIN remote[c]
    /\ NameMatches(remote[c][k])
    /\ remote' = [remote EXCEPT ![c] = SelectSeqIdx(@, 1, remote[c][k].id)]
    /\ envDeletes' = envDeletes + 1
    /\ UNCHANGED <<webhooks, nextId, budget, task, poll, state_file, monitor, message, config>>

----------------------------------------------------------------------------
(* MessageHandler.process_message (message_handler.py) *)

\* what the inbound payload holds under 'channel_id': nothing, the empty
\* string, JSON null, or a channel id
RawChannelIds == {"<missing>", "", "<null>", "s1", "s2", "s3", "s9"}

\* str(message_data.get('channel_id', ''))
StrChannelId(raw) ==
    CASE raw = "<missing>" -> ""
      [] raw = "<null>" -> "None"
      [] OTHER -> raw

\* (mutant) the channel_id test left out
ValidChannelId_NotChecked(channel_id) == TRUE

\* `if not channel_id:` rejects the empty string
ValidChannelId(channel_id) == channel_id # ""

\* an early `return False, reason`
Rejected(reason) == [success |-> FALSE, summary |-> reason, count |-> 0, total |-> 0]

\* process_message from its entry to the start of the destination loop
ProcessMessage(t, raw) ==
    LET tk == [IdleTask EXCEPT !.raw = raw]
        channel_id == StrChannelId(raw)
        group == get_relay_group_for_channel(channel_id)
        dest_channel_ids == get_destination_channel_ids(group)
    IN /\ t = "relay"
       /\ task[t].pc \in {"idle", "done"}
       /\ budget[t] > 0
       /\ budget' = [budget EXCEPT ![t] = @ - 1]
       /\ raw \in RawChannelIds
       /\ task' = [task EXCEPT ![t] =
            IF ~ValidChannelId(channel_id)
            THEN Finish(tk, Rejected("Missing channel_id"))
            ELSE IF group = 0
            THEN Finish([tk EXCEPT !.channel_id = channel_id, !.lookups = 1],
                        Rejected("Channel not in any relay group"))
            ELSE IF dest_channel_ids = <<>>
            THEN Finish([tk EXCEPT !.channel_id = channel_id, !.lookups = 3],
                        Rejected("No destinations configured"))
            ELSE DispatchFrom([tk EXCEPT !.channel_id = channel_id, !.lookups = 3,
                                         !.dest_channel_ids = dest_channel_ids,
                                         !.i = 1])]
       /\ UNCHANGED <<webhooks, remote, nextId, envDeletes, poll, state_file, monitor, message, config>>

----------------------------------------------------------------------------
(* EarthMCMonitor.send_notification (earthmc_monitor.py) *)

NotifTypes == {"town", "nation"}

\* the /relay handler of bot.py once future.result() has given the pair of
\* process_message: the HTTP status code and the JSON body (NoResult stands
\* for a body without 'message')
relay(result) ==
    IF result.success
    THEN [code |-> 200, status |-> "success", message |-> NoResult]
    ELSE [code |-> 200, status |-> "partial_success", message |-> result]

\* generate_minecraft_image returns the image or raises
RenderOutcomes == {"ok", "fail"}

\* send_notification from its entry to its first await, its return or the
\* exception generate_minecraft_image lets out
send_notification(notif_type, render) ==
    LET tk == [IdleTask EXCEPT !.notif_type = notif_type]
        groups == get_notification_relay_groups(notif_type)
    IN IF groups = <<>> THEN Finish(tk, Rejected("No relay groups"))
       ELSE IF render = "fail" THEN Finish(tk, Rejected("raised"))
       ELSE NotifyFrom([tk EXCEPT !.groups = groups, !.g = 1, !.i = 1])

\* a change event is notified while relay requests are served
SendNotification(t, notif_type, render) ==
    /\ t = "notify"
    /\ task[t].pc \in {"idle", "done"}
    /\ budget[t] > 0
    /\ budget' = [budget EXCEPT ![t] = @ - 1]
    /\ notif_type \in NotifTypes
    /\ render \in RenderOutcomes
    /\ task' = [task EXCEPT ![t] = send_notification(notif_type, render)]
    /\ UNCHANGED <<webhooks, remote, nextId, envDeletes, poll, state_file, monitor, message, config>>

\* `await asyncio.sleep(0.5)` after a destination is over
NotifySleep(t) ==
    /\ task[t].pc = "sn_sleep"
    /\ task' = [task EXCEPT ![t] = NotifyFrom([@ EXCEPT !.i = @ + 1])]
    /\ UNCHANGED <<webhooks, remote, nextId, envDeletes, budget, poll, state_file, monitor, message, config>>

----------------------------------------------------------------------------
(* EarthMCMonitor: snapshots, the state file and _monitor_loop *)

\* the identities the API knows, in lexicographic order
Uuids == <<"u1", "u2">>

\* an entity of an API response; NoKey stands for an entry without 'uuid'
Entry(u, n) == [uuid |-> u, name |-> n]
NoKey == "<no uuid>"

\* a snapshot is the dict {uuid: name}, kept as its items in insertion order
Keys(d) == {d[j].uuid : j \in DOMAIN d}
NameOf(d, u) == d[CHOOSE j \in DOMAIN d : d[j].uuid = u].name

RECURSIVE DictOf(_, _)
\* {e['uuid']: e['name'] for e in entries}, built on top of d: a key seen
\* again keeps its place and takes the later name
DictOf(d, entries) ==
    IF entries = <<>> THEN d
    ELSE LET e == Head(entries)
             d1 == IF e.uuid \in Keys(d)
                   THEN [j \in DOMAIN d |-> IF d[j].uuid = e.uuid THEN e ELSE d[j]]
                   ELSE Append(d, e)
         IN DictOf(d1, Tail(entries))

\* what fetch_api_data hands to the loop for one population: None, a JSON
\* list of entities, or a JSON object holding the list under the key of the
\* population ("own"), under 'data', or holding neither key ("other")
NoneResponse == [form |-> "none", key |-> "", entries |-> <<>>]
ApiResponses ==
    { NoneResponse,
      [form |-> "list", key |-> "", entries |-> <<>>],
      [form |-> "list", key |-> "", entries |-> <<Entry("u1", "Ava")>>],
      [form |-> "list", key |-> "", entries |-> <<Entry("u2", "Bree"), Entry("u1", "Cole")>>],
      [form |-> "dict", key |-> "own", entries |-> <<>>],
      [form |-> "dict", key |-> "other", entries |-> <<>>],
      [form |-> "list", key |-> "", entries |-> <<Entry(NoKey, "Dax")>>] }

\* `not towns_data`: None and the empty list are falsy, an object with a key
\* is not
Falsy(r) == r.form = "none" \/ (r.form = "list" /\ r.entries = <<>>)

\* towns_data.get('towns', towns_data.get('data', [])) for an object, the
\* list itself otherwise
ListOf(r) ==
    IF r.form = "dict"
    THEN IF r.key \in {"own", "data"} THEN r.entries ELSE <<>>
    ELSE r.entries

\* town['uuid'] raises KeyError on an entry without the key
Malformed(entries) == \E j \in DOMAIN entries : entries[j].uuid = NoKey

\* the file as load_state sees it: absent, not JSON, or a JSON object whose
\* 'towns' and 'nations' are dicts or something else
JsonValue(is_dict, entries) == [is_dict |-> is_dict, entries |-> entries]
AbsentFile == [kind |-> "absent", towns |-> JsonValue(FALSE, <<>>),
               nations |-> JsonValue(FALSE, <<>>)]
CorruptFile == [AbsentFile EXCEPT !.kind = "corrupt"]
JsonFile(towns, nations) == [kind |-> "json", towns |-> towns, nations |-> nations]

InitialStateFiles ==
    { AbsentFile,
      CorruptFile,
      JsonFile(JsonValue(TRUE, <<Entry("u1", "Ava"), Entry("u2", "Bea")>>),
               JsonValue(TRUE, <<>>)),
      JsonFile(JsonValue(FALSE, <<Entry("u2", "Bea")>>),
               JsonValue(TRUE, <<Entry("u1", "Ava")>>)) }

\* load_state: previous_towns and previous_nations after it. A file that
\* does not exist leaves them as they are; one that cannot be read or
\* parsed, or is no JSON object, resets both
load_state(file, previous_towns, previous_nations) ==
    CASE file.kind = "absent" -> [towns |-> previous_towns, nations |-> previous_nations]
      [] file.kind = "corrupt" -> [towns |-> <<>>, nations |-> <<>>]
      [] OTHER ->
            [towns |-> IF file.towns.is_dict THEN file.towns.entries ELSE <<>>,
             nations |-> IF file.nations.is_dict THEN file.nations.entries ELSE <<>>]

\* save_state: open(..., 'w') fails and leaves the file, json.dump stops
\* half way through the truncated file, or the file is written
SaveOutcomes == {"ok", "open_failed", "partial"}
save_state(file, towns, nations, save) ==
    CASE save = "ok" -> JsonFile(JsonValue(TRUE, towns), JsonValue(TRUE, nations))
      [] save = "open_failed" -> file
      [] OTHER -> CorruptFile

\* earthmc.notifications.<type>.templates of the configuration
notification_templates(notif_type) == {"created", "removed", "renamed"}

\* a change event before its message is formatted
Event(pop, kind, u, name, old_name) ==
    [pop |-> pop, kind |-> kind, uuid |-> u, name |-> name, old_name |-> old_name,
     leader |-> ""]

\* sorted(set(current.keys()) - set(previous.keys()))
CreatedUuids(previous, current) ==
    SelectSeq(Uuids, LAMBDA u : u \in Keys(current) \ Keys(previous))

\* (mutant) the set difference of the removed loop taken the wrong way round
RemovedUuids_DifferenceReversed(previous, current) ==
    SelectSeq(Uuids, LAMBDA u : u \in Keys(current) \ Keys(previous))

\* sorted(set(previous.keys()) - set(current.keys()))
RemovedUuids(previous, current) ==
    SelectSeq(Uuids, LAMBDA u : u \in Keys(previous) \ Keys(current))

\* (mutant) every identity of both snapshots is reported as renamed
RenamedEntries_NamesNotCompared(previous, current) ==
    SelectSeq(current, LAMBDA e : e.uuid \in Keys(previous))

\* `for uuid in current_towns:` with its two tests: the items of current, in
\* its order, that previous holds under another name
RenamedEntries(previous, current) ==
    SelectSeq(current, LAMBDA e : /\ e.uuid \in Keys(previous)
                                  /\ NameOf(previous, e.uuid) # e.name)

\* (mutant) the two names of the renamed template exchanged
RenamedEvent_NamesSwapped(pop, e, previous) ==
    Event(pop, "renamed", e.uuid, NameOf(previous, e.uuid), e.name)

\* templates['renamed'].format(old_name=old_name, new_name=new_name)
RenamedEvent(pop, e, previous) ==
    Event(pop, "renamed", e.uuid, e.name, NameOf(previous, e.uuid))

\* _check_town_changes and _check_nation_changes: the events in the order
\* their notifications are sent
check_changes(pop, previous, current) ==
    LET created == CreatedUuids(previous, current)
        removed == RemovedUuids(previous, current)
        renamed == RenamedEntries(previous, current)
    IN [j \in 1..Len(created) |->
            Event(pop, "created", created[j], NameOf(current, created[j]), "")]
       \o [j \in 1..Len(removed) |->
            Event(pop, "removed", removed[j], NameOf(previous, removed[j]), "")]
       \o [j \in 1..Len(renamed) |-> RenamedEvent(pop, renamed[j], previous)]

\* `if self.previous_towns:`: the empty dict __init__ and load_state leave
\* is the "no prior state" value
ShouldDiff(previous) == previous # <<>>

\* the monitor before start()
StoppedPoll ==
    [pc |-> "stopped", cycles |-> 0,
     previous_towns |-> <<>>, previous_nations |-> <<>>,
     current_towns |-> <<>>, current_nations |-> <<>>,
     phase |-> "town", queue |-> <<>>,
     \* what the cycle started from, was given and did
     before |-> [town |-> <<>>, nation |-> <<>>],
     fetched |-> [town |-> NoneResponse, nation |-> NoneResponse],
     emitted |-> <<>>, outcome |-> "none", save_result |-> "none",
     \* a cycle of this run has adopted a snapshot; one had before this cycle
     adopted |-> FALSE, had_baseline |-> FALSE,
     \* the cycle is the first one after a start()
     first |-> FALSE,
     \* the last detail lookup of the cycle: its event and its answer
     lookup |-> [pop |-> "", uuid |-> "", details |-> "unasked"],
     \* (history, kept when `recording`) the events of the cycle that reached
     \* a channel, and those of the cycles before it since a snapshot was
     \* last adopted
     recording |-> FALSE, sent |-> <<>>, unadopted |-> {}]

\* the end of a cycle that ran to its end: the snapshot is adopted and saved
Adopt(p, file, save) ==
    [poll |-> [p EXCEPT !.previous_towns = p.current_towns,
                        !.previous_nations = p.current_nations,
                        !.queue = <<>>, !.pc = "sleep",
                        !.outcome = "completed", !.save_result = save,
                        !.adopted = TRUE, !.sent = <<>>, !.unadopted = {}],
     file |-> save_state(file, p.current_towns, p.current_nations, save)]

\* (mutant) the snapshot is adopted as soon as the towns are notified
Continue_AdoptsBeforeNations(p, file, save) ==
    IF p.queue # <<>>
    THEN [poll |-> [p EXCEPT !.pc = "event"], file |-> file]
    ELSE Adopt(p, file, save)

\* the cycle from the event at the head of p.queue on, up to its next await
Continue(p, file, save) ==
    IF p.queue # <<>>
    THEN [poll |-> [p EXCEPT !.pc = "event"], file |-> file]
    ELSE IF p.phase = "town"
    THEN LET q == IF ShouldDiff(p.previous_nations)
                  THEN check_changes("nation", p.previous_nations, p.current_nations)
                  ELSE <<>>
             p1 == [p EXCEPT !.phase = "nation", !.queue = q]
         IN IF q # <<>>
            THEN [poll |-> [p1 EXCEPT !.pc = "event"], file |-> file]
            ELSE Adopt(p1, file, save)
    ELSE Adopt(p, file, save)

\* the loop's `except Exception`, then the sleep: nothing is adopted
Abort(p, how) == [p EXCEPT !.queue = <<>>, !.pc = "sleep", !.outcome = how]

\* fetch_api_data answers: the falsy test, the two dicts, the check of the
\* towns up to its first await (and, without events, all the rest of the cycle)
PollFetchReturn(tr, nr, save) ==
    LET failed == tr.form = "none" \/ nr.form = "none"
        towns_data == IF failed THEN NoneResponse ELSE tr
        nations_data == IF failed THEN NoneResponse ELSE nr
        p0 == [poll EXCEPT !.before = [town |-> poll.previous_towns,
                                       nation |-> poll.previous_nations],
                           !.fetched = [town |-> towns_data, nation |-> nations_data],
                           !.had_baseline = poll.adopted]
        current_towns == DictOf(<<>>, ListOf(towns_data))
        current_nations == DictOf(<<>>, ListOf(nations_data))
        p1 == [p0 EXCEPT !.current_towns = current_towns,
                         !.current_nations = current_nations,
                         !.queue = IF ShouldDiff(poll.previous_towns)
                                   THEN check_changes("town", poll.previous_towns,
                                                      current_towns)
                                   ELSE <<>>]
        r == IF Falsy(towns_data) \/ Falsy(nations_data)
             THEN [poll |-> Abort(p0, "skipped"), file |-> state_file]
             ELSE IF Malformed(ListOf(towns_data)) \/ Malformed(ListOf(nations_data))
             THEN [poll |-> Abort(p0, "raised"), file |-> state_file]
             ELSE Continue(p1, state_file, save)
    IN /\ poll.pc = "fetch"
       /\ poll' = r.poll
       /\ state_file' = r.file
       /\ UNCHANGED <<webhooks, remote, nextId, envDeletes, budget, task, monitor, message, config>>

\* the detail lookup of a created entity: a record naming the leader; None
\* (network error, non-200 status, invalid JSON, empty list) or a record
\* without 'mayor' / 'king'; a record that is no JSON object, or whose
\* 'mayor' / 'king' is none (null, a string), on which .get raises
DetailOutcomes == {"found", "none", "malformed"}

\* details.get('mayor', {}).get('name', 'Unknown') if details else 'Unknown'
Leader(details) == IF details = "found" THEN "Lee" ELSE "Unknown"

\* one event: its detail lookup answers, its message is formatted and
\* send_notification runs to its first await
PollEvent(details, render) ==
    LET e0 == Head(poll.queue)
        e == IF e0.kind = "created" THEN [e0 EXCEPT !.leader = Leader(details)] ELSE e0
        p == IF e0.kind = "created"
             THEN [poll EXCEPT !.lookup = [pop |-> e0.pop, uuid |-> e0.uuid,
                                           details |-> details]]
             ELSE poll
        tk == send_notification(e.pop, render)
    IN /\ poll.pc = "event"
       /\ e0.kind # "created" => details = "none"
       /\ IF e.kind \notin notification_templates(e.pop)
          THEN poll' = Abort(p, "raised") /\ UNCHANGED task
          ELSE IF e0.kind = "created" /\ details = "malformed"
          THEN poll' = Abort(p, "raised") /\ UNCHANGED task
          ELSE IF tk.result = Rejected("raised")
          THEN poll' = Abort([p EXCEPT !.emitted = Append(@, e)], "raised")
               /\ UNCHANGED task
          ELSE /\ poll' = [p EXCEPT !.emitted = Append(@, e), !.pc = "notifying"]
               /\ task' = [task EXCEPT !["notify"] = tk]
       /\ UNCHANGED <<webhooks, remote, nextId, envDeletes, budget, state_file, monitor, message, config>>

\* send_notification has returned and the `await asyncio.sleep(0.5)` after
\* it is over: the next event, the other population, or the end of the cycle
PollAfterNotify(save) ==
    LET reached == poll.recording /\ task["notify"].delivered > 0
        r == Continue([poll EXCEPT !.queue = Tail(@),
                                   !.sent = IF reached THEN Append(@, Head(poll.queue))
                                            ELSE @],
                      state_file, save)
    IN /\ poll.pc = "notifying"
       /\ task["notify"].pc = "done"
       /\ poll' = r.poll
       /\ state_file' = r.file
       /\ task' = [task EXCEPT !["notify"] = IdleTask]
       /\ UNCHANGED <<webhooks, remote, nextId, envDeletes, budget, monitor, message, config>>

\* `await asyncio.sleep(poll_interval)` is over: the next cycle starts and
\* awaits its fetch
PollSleep ==
    /\ poll.pc = "sleep"
    /\ poll.cycles < MaxCycles
    /\ poll' = [StoppedPoll EXCEPT !.pc = "fetch", !.cycles = poll.cycles + 1,
                                  !.adopted = poll.adopted,
                                  !.recording = poll.recording,
                                  !.unadopted = poll.unadopted \cup Seq2Set(poll.sent),
                                  !.previous_towns = poll.previous_towns,
                                  !.previous_nations = poll.previous_nations]
    /\ UNCHANGED <<webhooks, remote, nextId, envDeletes, budget, task, state_file, monitor, message, config>>

\* start() runs again while the loop sleeps (on_ready after a reconnect, or
\* the start() of a reload): load_state reads the file into the monitor as
\* the cycles have left it, and the new loop task awaits its first fetch
PollStart ==
    LET loaded == load_state(state_file, poll.previous_towns, poll.previous_nations)
    IN /\ poll.pc = "sleep"
       /\ poll.cycles < MaxCycles
       /\ poll' = [StoppedPoll EXCEPT !.pc = "fetch", !.cycles = poll.cycles + 1,
                                     !.first = TRUE,
                                     !.adopted = poll.adopted /\ state_file.kind = "absent",
                                     !.recording = poll.recording,
                                     !.unadopted = poll.unadopted \cup Seq2Set(poll.sent),
                                     !.previous_towns = loaded.towns,
                                     !.previous_nations = loaded.nations]
       /\ UNCHANGED <<webhooks, remote, nextId, envDeletes, budget, task, state_file, monitor, message, config>>

----------------------------------------------------------------------------
(* EarthMCMonitor.start and stop, the reload and force-check handlers of   *)
(* bot.py, and the loop tasks they create and cancel                       *)

\* a loop task is followed through its awaits by where a CancelledError
\* would be raised: "ready" (wait_until_ready, before the try), "try" (an
\* await inside the try of the loop body), "delete" (webhook.delete inside
\* the bare except of get_webhook), "sleep" (the sleep after the try); it
\* ends by returning ("ended") or with the CancelledError ("cancelled")
NewLoop == [pos |-> "ready", cancel |-> FALSE]
Live(l) == l.pos \notin {"ended", "cancelled"}

\* the monitor before the first on_ready
StoppedMonitor ==
    [enabled |-> TRUE, monitor_task |-> 0, session |-> 0,
     sessions |-> <<>>, loops |-> <<>>, coros |-> <<>>, requests |-> 0,
     \* the newest loop that has saved a snapshot; an older loop has saved
     \* after it; a stop() of a disabled monitor has returned
     newest_writer |-> 0, stale_write |-> FALSE, stopped |-> FALSE]

\* asyncio.create_task(self._monitor_loop()), assigned to monitor_task
CreateLoop(m) ==
    [m EXCEPT !.loops = Append(@, NewLoop), !.monitor_task = Len(m.loops) + 1]

\* start(): a new session, load_state, a new loop task; it has no await
start(m) ==
    IF ~m.enabled THEN m
    ELSE CreateLoop([m EXCEPT !.sessions = Append(@, "open"),
                              !.session = Len(m.sessions) + 1])

\* monitor_task.cancel(): a request the task meets at its next step
Cancel(m) ==
    IF m.monitor_task # 0 /\ Live(m.loops[m.monitor_task])
    THEN [m EXCEPT !.loops[m.monitor_task].cancel = TRUE]
    ELSE m

\* a coroutine handed to the event loop by run_coroutine_threadsafe
Scheduled(kind) == [kind |-> kind, pc |-> "scheduled", awaited |-> 0]

\* the event loop runs the first steps of scheduled coroutines in the order
\* they were handed over
FirstInLine(c) ==
    /\ c \in DOMAIN monitor.coros
    /\ monitor.coros[c].pc = "scheduled"
    /\ \A b \in 1..(c - 1) : monitor.coros[b].pc # "scheduled"

\* on_ready fires (again, after a reconnect) and awaits start()
OnReady ==
    /\ monitor.requests < MaxRequests
    /\ monitor.enabled
    /\ monitor' = start([monitor EXCEPT !.requests = @ + 1])
    /\ UNCHANGED <<webhooks, remote, nextId, envDeletes, budget, task, poll, state_file, message, config>>

\* POST /earthmc/force-check: the handler cancels monitor_task and hands
\* restart() to the event loop
ForceCheck ==
    /\ monitor.requests < MaxRequests
    /\ monitor.enabled
    /\ monitor.monitor_task # 0
    /\ monitor' = [Cancel(monitor) EXCEPT !.requests = @ + 1,
                                          !.coros = Append(@, Scheduled("restart"))]
    /\ UNCHANGED <<webhooks, remote, nextId, envDeletes, budget, task, poll, state_file, message, config>>

\* restart() up to `await earthmc_monitor.monitor_task`, and through it when
\* that task is over already
RestartBegin(c) ==
    LET t == monitor.monitor_task
    IN /\ FirstInLine(c)
       /\ monitor.coros[c].kind = "restart"
       /\ monitor' =
            IF Live(monitor.loops[t])
            THEN [monitor EXCEPT !.coros[c].pc = "awaiting", !.coros[c].awaited = t]
            ELSE CreateLoop([monitor EXCEPT !.coros[c].pc = "returned"])
       /\ UNCHANGED <<webhooks, remote, nextId, envDeletes, budget, task, poll, state_file, message, config>>

\* the task restart() awaits is over: the new loop task is created
RestartResume(c) ==
    /\ c \in DOMAIN monitor.coros
    /\ monitor.coros[c].kind = "restart"
    /\ monitor.coros[c].pc = "awaiting"
    /\ ~Live(monitor.loops[monitor.coros[c].awaited])
    /\ monitor' = CreateLoop([monitor EXCEPT !.coros[c].pc = "returned"])
    /\ UNCHANGED <<webhooks, remote, nextId, envDeletes, budget, task, poll, state_file, message, config>>

\* POST /reload-config: stop() is handed to the event loop and, when the
\* new configuration enables the monitor, start() after it
ReloadConfig(enabled) ==
    /\ monitor.requests < MaxRequests
    /\ monitor' = [monitor EXCEPT
            !.requests = @ + 1, !.enabled = enabled,
            !.stopped = FALSE,
            !.coros = IF enabled
                      THEN @ \o <<Scheduled("stop"), Scheduled("start")>>
                      ELSE Append(@, Scheduled("stop"))]
    /\ UNCHANGED <<webhooks, remote, nextId, envDeletes, budget, task, poll, state_file, message, config>>

\* `await self.session.close()` and the return of stop()
CloseAndReturn(m, c) ==
    [m EXCEPT !.sessions = IF m.session = 0 THEN @
                           ELSE [@ EXCEPT ![m.session] = "closed"],
              !.coros[c].pc = "returned",
              !.stopped = ~m.enabled]

\* stop() up to `await self.monitor_task`, and through it when that task is
\* over already or was never created
StopBegin(c) ==
    LET t == monitor.monitor_task
    IN /\ FirstInLine(c)
       /\ monitor.coros[c].kind = "stop"
       /\ monitor' =
            IF t # 0 /\ Live(monitor.loops[t])
            THEN [Cancel(monitor) EXCEPT !.coros[c].pc = "awaiting",
                                         !.coros[c].awaited = t]
            ELSE CloseAndReturn(monitor, c)
       /\ UNCHANGED <<webhooks, remote, nextId, envDeletes, budget, task, poll, state_file, message, config>>

\* the task stop() awaits is over: the session is closed and stop() returns
StopResume(c) ==
    /\ c \in DOMAIN monitor.coros
    /\ monitor.coros[c].kind = "stop"
    /\ monitor.coros[c].pc = "awaiting"
    /\ ~Live(monitor.loops[monitor.coros[c].awaited])
    /\ monitor' = CloseAndReturn(monitor, c)
    /\ UNCHANGED <<webhooks, remote, nextId, envDeletes, budget, task, poll, state_file, message, config>>

\* the start() of a reload runs
StartRun(c) ==
    /\ FirstInLine(c)
    /\ monitor.coros[c].kind = "start"
    /\ monitor' = start([monitor EXCEPT !.coros[c].pc = "returned"])
    /\ UNCHANGED <<webhooks, remote, nextId, envDeletes, budget, task, poll, state_file, message, config>>

\* the session the loops fetch through (self.session) is open
SessionOpen(m) == m.session # 0 /\ m.sessions[m.session] = "open"

\* a loop task no cancellation was asked of takes its next step: the bot is
\* ready; the cycle goes into a best-effort delete of get_webhook and comes
\* back; the cycle ends, adopting and saving or not; the sleep is over
LoopStep(id, adopts) ==
    LET l == monitor.loops[id]
    IN /\ id \in DOMAIN monitor.loops
       /\ Live(l)
       /\ ~l.cancel
       /\ adopts => (l.pos = "try" /\ SessionOpen(monitor))
       /\ monitor' =
            IF l.pos = "try" /\ adopts
            THEN [monitor EXCEPT
                    !.loops[id].pos = "sleep",
                    !.stale_write = @ \/ id < monitor.newest_writer,
                    !.newest_writer = IF id > @ THEN id ELSE @]
            ELSE [monitor EXCEPT !.loops[id].pos =
                    CASE l.pos = "ready" -> "try"
                      [] l.pos = "try" -> "sleep"
                      [] l.pos = "delete" -> "try"
                      [] OTHER -> "try"]
       /\ UNCHANGED <<webhooks, remote, nextId, envDeletes, budget, task, poll, state_file, message, config>>

\* a cycle reaches `await webhook.delete(...)` in get_webhook
LoopDelete(id) ==
    /\ id \in DOMAIN monitor.loops
    /\ monitor.loops[id].pos = "try"
    /\ ~monitor.loops[id].cancel
    /\ monitor' = [monitor EXCEPT !.loops[id].pos = "delete"]
    /\ UNCHANGED <<webhooks, remote, nextId, envDeletes, budget, task, poll, state_file, message, config>>

\* the CancelledError is raised at the await the task is suspended at:
\* outside the try it ends the task, inside the try `except
\* asyncio.CancelledError: break` ends it, and the bare `except: pass`
\* around webhook.delete swallows it
CancelDeliver(id) ==
    LET l == monitor.loops[id]
    IN /\ id \in DOMAIN monitor.loops
       /\ Live(l)
       /\ l.cancel
       /\ monitor' = [monitor EXCEPT !.loops[id] =
            CASE l.pos = "try" -> [pos |-> "ended", cancel |-> FALSE]
              [] l.pos = "delete" -> [pos |-> "try", cancel |-> FALSE]
              [] OTHER -> [pos |-> "cancelled", cancel |-> FALSE]]
       /\ UNCHANGED <<webhooks, remote, nextId, envDeletes, budget, task, poll, state_file, message, config>>

----------------------------------------------------------------------------
(* Texts: utils.py and the message components of message_handler.py. A     *)
(* text is the sequence of its characters                                  *)

\* the character ` (a string of the model cannot hold it)
Backtick == "<backtick>"

\* "Unknown User"
Placeholder == <<"U", "n", "k", "n", "o", "w", "n", " ", "U", "s", "e", "r">>

\* `if len(sanitized) > 80`
UsernameCap == 80

\* forbidden = ['@', '#', ':', '```', 'discord']
forbidden == << <<"@">>, <<"#">>, <<":">>, <<Backtick, Backtick, Backtick>>, <<"d", "i", "s", "c", "o", "r", "d">> >>

\* n times the letter a
Filler(n) == [j \in 1..n |-> "a"]

\* old occurs in s
Contains(s, old) ==
    \E j \in 0..(Len(s) - Len(old)) : SubSeq(s, j + 1, j + Len(old)) = old

RECURSIVE replace(_, _)
\* s.replace(old, ''): the occurrences found from left to right, in one pass
replace(s, old) ==
    LET found == {j \in 1..(Len(s) - Len(old) + 1) : SubSeq(s, j, j + Len(old) - 1) = old}
    IN IF found = {} THEN s
       ELSE LET first == CHOOSE j \in found : \A k \in found : j <= k
            IN SubSeq(s, 1, first - 1)
               \o replace(SubSeq(s, first + Len(old), Len(s)), old)

RECURSIVE ReplaceEach(_, _)
\* the loop `for forbidden_str in forbidden`, one replace after the other
ReplaceEach(s, olds) ==
    IF olds = <<>> THEN s ELSE ReplaceEach(replace(s, Head(olds)), Tail(olds))

Whitespace == {" ", "\n", "\t"}

\* s.strip()
strip(s) ==
    LET keep == {j \in DOMAIN s : s[j] \notin Whitespace}
    IN IF keep = {} THEN <<>>
       ELSE SubSeq(s, CHOOSE j \in keep : \A k \in keep : j <= k,
                      CHOOSE j \in keep : \A k \in keep : j >= k)

\* utils.sanitize_webhook_username
sanitize_webhook_username(username) ==
    IF username = <<>> THEN Placeholder
    ELSE LET sanitized == strip(ReplaceEach(username, forbidden))
         IN IF sanitized = <<>> THEN Placeholder
            ELSE IF Len(sanitized) > UsernameCap THEN SubSeq(sanitized, 1, UsernameCap)
            ELSE sanitized

RECURSIVE Texts(_, _)
\* the texts put together from at most n of the pieces
Texts(pieces, n) ==
    IF n = 0 THEN {<<>>}
    ELSE LET shorter == Texts(pieces, n - 1)
         IN shorter \cup {t \o q : t \in shorter, q \in pieces}

\* user names: forbidden substrings whole and in halves, a blank, a letter
\* and a run of letters one short of the cap
UsernamePieces ==
    { <<"@">>, <<Backtick>>, <<Backtick, Backtick>>, <<"d", "i", "s">>, <<"c", "o", "r", "d">>,
      <<"d", "i", "s", "c", "o", "r", "d">>, <<" ">>, <<"n">>, Filler(UsernameCap - 1) }

Usernames == Texts(UsernamePieces, MaxPieces)

\* no text yet
NoText == <<"<none>">>

\* `if len(full_content) > 2000` and `full_content[:1997] + "..."`
ContentCap == 2000
ContentKeep == 1997
Marker == <<".", ".", ".">>

RECURSIVE Join(_, _)
\* sep.join(parts)
Join(parts, sep) ==
    IF parts = <<>> THEN <<>>
    ELSE IF Len(parts) = 1 THEN parts[1]
    ELSE parts[1] \o sep \o Join(Tail(parts), sep)

\* the source channel as the configuration describes it, and the ids of the
\* message
guild_id == <<"g", "1">>
guild_name == <<"G", "u", "i", "l", "d">>
channel_name == <<"n", "e", "w", "s">>
source_channel_id == <<"s", "1">>

\* utils.build_message_link: empty unless all three ids are there
build_message_link(gid, cid, mid) ==
    IF gid = <<>> \/ cid = <<>> \/ mid = <<>> THEN <<>>
    ELSE <<"h", "t", "t", "p", "s", ":", "/", "/", "d", "i", "s", "c", "o", "r", "d", ".", "c", "o", "m", "/", "c", "h", "a", "n", "n", "e", "l", "s", "/">> \o gid \o <<"/">> \o cid \o <<"/">> \o mid

\* utils.format_message_footer: an empty first line, the origin, the jump
\* link if there is one
format_message_footer(gname, cname, message_link) ==
    LET origin == <<"-", "#", " ">> \o <<"<pin>">> \o <<" ", "*", "*">> \o gname \o <<"*", "*", " ", "|", " ", "#">> \o cname
        jump == <<"-", "#", " ", "[", "J", "u", "m", "p", " ", "t", "o", " ", "M", "e", "s", "s", "a", "g", "e", "]", "(">> \o message_link \o <<")">>
    IN Join(IF message_link # <<>> THEN <<<<>>, origin, jump>> ELSE <<<<>>, origin>>,
            <<"\n">>)

\* an attachment of the payload: its file name and its url (or none), and
\* whether the url ends like an image
Attachment(filename, url) == [filename |-> filename, url |-> url]
AttachmentLists ==
    { <<>>,
      <<Attachment(<<"f", ".", "p", "n", "g">>, <<"c", "d", "n", "/", "f", ".", "p", "n", "g">>)>>,
      <<Attachment(<<"f", ".", "t", "x", "t">>, <<>>)>>,
      <<Attachment(<<"a", ".", "t", "x", "t">>, <<"c", "d", "n", "/", "a", ".", "t", "x", "t">>),
        Attachment(<<"b", ".", "g", "i", "f">>, <<"c", "d", "n", "/", "b", ".", "g", "i", "f">>)>> }

\* the links of the attachments that have a url: "[filename](url)"
AttachmentLinks(attachments) ==
    LET with_url == SelectSeq(attachments, LAMBDA att : att.url # <<>>)
    IN [j \in DOMAIN with_url |->
            <<"[">> \o with_url[j].filename \o <<"]", "(">> \o with_url[j].url \o <<")">>]

\* build_message_content before the length limit: content, footer and the
\* line of attachment links
FullContent(content, message_id, attachments) ==
    LET footer == format_message_footer(guild_name, channel_name,
                      build_message_link(guild_id, source_channel_id, message_id))
        with_footer == IF content # <<>> THEN content \o <<"\n">> \o footer ELSE footer
        links == AttachmentLinks(attachments)
    IN IF links # <<>>
       THEN with_footer \o <<"\n", "-", "#", " ">> \o Join(links, <<",", " ">>)
       ELSE with_footer

\* (mutant) the marker is added after a cut at the limit
Truncate_MarkerAfterCap(full_content) ==
    IF Len(full_content) > ContentCap
    THEN SubSeq(full_content, 1, ContentCap) \o Marker
    ELSE full_content

\* the length limit of build_message_content
Truncate(full_content) ==
    IF Len(full_content) > ContentCap
    THEN SubSeq(full_content, 1, ContentKeep) \o Marker
    ELSE full_content

\* a url that ends like an image
IsImage(url) ==
    \E ext \in {<<".", "p", "n", "g">>, <<".", "j", "p", "g">>, <<".", "j", "p", "e", "g">>, <<".", "g", "i", "f">>, <<".", "w", "e", "b", "p">>} :
        Len(url) >= Len(ext) /\ SubSeq(url, Len(url) - Len(ext) + 1, Len(url)) = ext

\* build_embeds: how many embeds it returns (none is None): the embeds of
\* the payload and one for every image attachment, ten at most
build_embeds(nembeds, attachments) ==
    LET images == Len(SelectSeq(attachments, LAMBDA att : att.url # <<>> /\ IsImage(att.url)))
    IN IF nembeds + images > 10 THEN 10 ELSE nembeds + images

\* message contents: a letter and a run of letters that, with the footer
\* and its jump link, ends one character short of the limit
ContentPieces ==
    { <<"h">>,
      Filler(ContentCap - 2 - Len(format_message_footer(guild_name, channel_name,
                 build_message_link(guild_id, source_channel_id, <<"m", "1">>)))) }

Contents == Texts(ContentPieces, MaxPieces)

\* the keyword arguments of webhook.send: no call yet
NoSend == [sent |-> FALSE, username |-> NoText, content |-> NoText, embeds |-> FALSE]

\* no message yet
NoMessage ==
    [stage |-> "none",
     \* the payload: author.username (or no such key), content, message_id,
     \* attachments, the number of embeds
     has_username |-> FALSE, username |-> <<>>, content |-> <<>>,
     message_id |-> <<>>, attachments |-> <<>>, nembeds |-> 0,
     \* what sanitize_webhook_username makes of the user name
     sanitized |-> NoText,
     \* the components process_message builds, and the body before its limit
     username_out |-> NoText, full_content |-> NoText, body |-> NoText, embeds |-> 0,
     send_kwargs |-> NoSend]

\* a payload
Received(has_username, username, content, message_id, attachments, nembeds) ==
    [NoMessage EXCEPT !.stage = "received", !.has_username = has_username,
                      !.username = username, !.content = content,
                      !.message_id = message_id, !.attachments = attachments,
                      !.nembeds = nembeds]

\* sanitize_webhook_username is applied to the user name
Sanitize ==
    /\ message.stage = "received"
    /\ message.has_username
    /\ message.sanitized = NoText
    /\ message' = [message EXCEPT !.sanitized = sanitize_webhook_username(message.username)]
    /\ UNCHANGED <<webhooks, remote, nextId, envDeletes, budget, task, poll, state_file, monitor, config>>

\* extract_author_info: author.get('username', 'Unknown User')
extract_author_info(has_username, username) ==
    IF has_username THEN username ELSE Placeholder

\* process_message builds the components of the outgoing message
BuildComponents ==
    LET full_content == FullContent(message.content, message.message_id, message.attachments)
    IN /\ message.stage = "received"
       /\ message' = [message EXCEPT
            !.stage = "built",
            !.username_out = extract_author_info(message.has_username, message.username),
            !.full_content = full_content,
            !.body = Truncate(full_content),
            !.embeds = build_embeds(message.nembeds, message.attachments)]
       /\ UNCHANGED <<webhooks, remote, nextId, envDeletes, budget, task, poll, state_file, monitor, config>>

\* send_webhook_message from the webhook it was given to `await
\* webhook.send(**send_kwargs)`
SendWebhookMessage ==
    LET content == message.body
        embeds == message.embeds > 0
        content_to_send == IF content # <<>> \/ embeds THEN content ELSE <<>>
    IN /\ message.stage = "built"
       /\ message' = [message EXCEPT
            !.stage = "sent",
            !.send_kwargs = [sent |-> TRUE,
                             username |-> message.username_out,
                             content |-> IF content_to_send # <<>> THEN content_to_send
                                         ELSE NoText,
                             embeds |-> embeds]]
       /\ UNCHANGED <<webhooks, remote, nextId, envDeletes, budget, task, poll, state_file, monitor, config>>

----------------------------------------------------------------------------
(* Specifications *)

\* what every specification starts from: an empty cache on a platform whose
\* channel 1 may hold webhooks already
InitBase ==
    /\ webhooks = [c \in TextChannels |-> NoWebhook]
    /\ remote \in {[c \in TextChannels |-> IF c = 1 THEN l ELSE <<>>] : l \in InitialListings}
    /\ nextId = FirstNewId
    /\ envDeletes = 0
    /\ task = [t \in Tasks |-> IdleTask]
    /\ poll = StoppedPoll
    /\ state_file = AbsentFile
    /\ monitor = StoppedMonitor
    /\ message = NoMessage
    /\ config = LoadedConfig

\* the steps of get_webhook and of the send that follows it
WebhookStep(t) ==
    \/ \E o \in {"ok", "forbidden", "error", "notfound"} : ProbeReturn(t, o)
    \/ \E o \in ManageOutcomes : ListReturn(t, o)
    \/ \E o \in {"ok", "forbidden", "error", "notfound"} : LoopFetchReturn(t, o)
    \/ \E o \in {"ok", "fail"} : LoopDeleteReturn(t, o)
    \/ \E o \in ManageOutcomes : CreateReturn(t, o)
    \/ Resume(t)
    \/ \E o \in {"ok", "forbidden", "error", "notfound"} : SendReturn(t, o)

\* Relay requests handled one after the other
Init ==
    /\ InitBase
    /\ budget = [t \in Tasks |-> IF t = "relay" THEN MaxOps ELSE 0]

Next ==
    \/ \E raw \in RawChannelIds : ProcessMessage("relay", raw)
    \/ WebhookStep("relay")
    \/ \E c \in TextChannels, k \in 1..3 : EnvDelete(c, k)

Spec == Init /\ [][Next]_vars

RECURSIVE FirstUsable(_)
\* the webhook an undisturbed get_webhook takes from a listing
FirstUsable(l) ==
    IF l = <<>> THEN NoWebhook
    ELSE IF NameMatches(Head(l)) /\ Head(l).token THEN Head(l)
         ELSE FirstUsable(Tail(l))

\* One relay request and one notification fan-out, interleaved at their
\* awaits on the one WebhookManager. The cache of channel 1 is empty, or is
\* as an earlier request left it: holding the usable webhook of the listing
\* or, without one, the webhook that request created
InitRace ==
    /\ \E l \in RaceListings, warm \in BOOLEAN :
          LET u == FirstUsable(l)
              h == IF u # NoWebhook THEN u ELSE NewWebhook(FirstNewId)
              l1 == IF u # NoWebhook THEN l ELSE Append(l, h)
          IN IF warm
             THEN /\ webhooks = [c \in TextChannels |-> IF c = 1 THEN h ELSE NoWebhook]
                  /\ remote = [c \in TextChannels |-> IF c = 1 THEN l1 ELSE <<>>]
                  /\ nextId = IF u # NoWebhook THEN FirstNewId ELSE FirstNewId + 1
             ELSE /\ webhooks = [c \in TextChannels |-> NoWebhook]
                  /\ remote = [c \in TextChannels |-> IF c = 1 THEN l ELSE <<>>]
                  /\ nextId = FirstNewId
    /\ envDeletes = 0
    /\ task = [t \in Tasks |-> IdleTask]
    /\ budget = [t \in Tasks |-> 1]
    /\ poll = StoppedPoll
    /\ state_file = AbsentFile
    /\ monitor = StoppedMonitor
    /\ message = NoMessage
    /\ config = LoadedConfig

NextRace ==
    \/ \E raw \in RawChannelIds : ProcessMessage("relay", raw)
    \/ \E ty \in NotifTypes, r \in RenderOutcomes : SendNotification("notify", ty, r)
    \/ NotifySleep("notify")
    \/ \E t \in Tasks : WebhookStep(t)
    \/ \E c \in TextChannels, k \in 1..3 : EnvDelete(c, k)

SpecRace == InitRace /\ [][NextRace]_vars

\* Change events notified one after the other, under either configuration
InitNotify ==
    /\ webhooks = [c \in TextChannels |-> NoWebhook]
    /\ remote \in {[c \in TextChannels |-> IF c = 1 THEN l ELSE <<>>] : l \in InitialListings}
    /\ nextId = FirstNewId
    /\ envDeletes = 0
    /\ task = [t \in Tasks |-> IdleTask]
    /\ budget = [t \in Tasks |-> IF t = "notify" THEN MaxOps ELSE 0]
    /\ poll = StoppedPoll
    /\ state_file = AbsentFile
    /\ monitor = StoppedMonitor
    /\ message = NoMessage
    /\ config \in {LoadedConfig, TownsOnlyConfig}

NextNotify ==
    \/ \E ty \in NotifTypes, r \in RenderOutcomes : SendNotification("notify", ty, r)
    \/ NotifySleep("notify")
    \/ WebhookStep("notify")
    \/ \E c \in TextChannels, k \in 1..3 : EnvDelete(c, k)

SpecNotify == InitNotify /\ [][NextNotify]_vars

\* The monitor after start(): load_state has read the file and _monitor_loop
\* awaits its first fetch; no relay request is served meanwhile. The relay
\* webhook of channel 1 stays on the platform: a fetch of the cached handle
\* answers or fails, a listing is given or refused, a send answers or fails
PollInit(recording) ==
    /\ webhooks = [c \in TextChannels |-> NoWebhook]
    /\ remote = [c \in TextChannels |-> IF c = 1 THEN <<PreUsable>> ELSE <<>>]
    /\ nextId = FirstNewId
    /\ envDeletes = 0
    /\ task = [t \in Tasks |-> IdleTask]
    /\ budget = [t \in Tasks |-> 0]
    /\ state_file \in InitialStateFiles
    /\ monitor = start(StoppedMonitor)
    /\ message = NoMessage
    /\ config = LoadedConfig
    /\ poll = [StoppedPoll EXCEPT !.pc = "fetch", !.cycles = 1, !.first = TRUE,
            !.recording = recording,
            !.previous_towns = load_state(state_file, <<>>, <<>>).towns,
            !.previous_nations = load_state(state_file, <<>>, <<>>).nations]

InitPoll == PollInit(FALSE)

NextPoll ==
    \/ \E tr \in ApiResponses, nr \in ApiResponses, save \in SaveOutcomes :
          PollFetchReturn(tr, nr, save)
    \/ \E details \in DetailOutcomes, render \in RenderOutcomes : PollEvent(details, render)
    \/ \E save \in SaveOutcomes : PollAfterNotify(save)
    \/ PollSleep
    \/ PollStart
    \/ NotifySleep("notify")
    \/ \E o \in {"ok", "error"} : ProbeReturn("notify", o)
    \/ \E o \in {"ok", "forbidden"} : ListReturn("notify", o)
    \/ LoopFetchReturn("notify", "ok")
    \/ Resume("notify")
    \/ \E o \in {"ok", "error"} : SendReturn("notify", o)

SpecPoll == InitPoll /\ [][NextPoll]_vars

\* The same run of the monitor with the history of the delivered events kept
InitPollHistory == PollInit(TRUE)

SpecPollHistory == InitPollHistory /\ [][NextPoll]_vars

\* The tasks of the monitor from the first on_ready on: requests arrive at
\* any time and every coroutine and loop task runs when the event loop gets
\* to it
InitMonitor ==
    /\ webhooks = [c \in TextChannels |-> NoWebhook]
    /\ remote = [c \in TextChannels |-> <<>>]
    /\ nextId = FirstNewId
    /\ envDeletes = 0
    /\ task = [t \in Tasks |-> IdleTask]
    /\ budget = [t \in Tasks |-> 0]
    /\ poll = StoppedPoll
    /\ state_file = AbsentFile
    /\ monitor = start(StoppedMonitor)
    /\ message = NoMessage
    /\ config = LoadedConfig

NextMonitor ==
    \/ OnReady
    \/ ForceCheck
    \/ \E enabled \in BOOLEAN : ReloadConfig(enabled)
    \/ \E c \in DOMAIN monitor.coros : RestartBegin(c)
    \/ \E c \in DOMAIN monitor.coros : RestartResume(c)
    \/ \E c \in DOMAIN monitor.coros : StopBegin(c)
    \/ \E c \in DOMAIN monitor.coros : StopResume(c)
    \/ \E c \in DOMAIN monitor.coros : StartRun(c)
    \/ \E id \in DOMAIN monitor.loops, adopts \in BOOLEAN : LoopStep(id, adopts)
    \/ \E id \in DOMAIN monitor.loops : LoopDelete(id)
    \/ \E id \in DOMAIN monitor.loops : CancelDeliver(id)

SpecMonitor == InitMonitor /\ [][NextMonitor]_vars

\* The event loop runs every coroutine and task that can take a step: a
\* loop task goes on polling, a cancellation asked of a task is raised in
\* it, and stop(), start() and restart() run once scheduled and resume once
\* what they await is over
MonitorFairness ==
    /\ WF_vars(\E id \in DOMAIN monitor.loops, adopts \in BOOLEAN : LoopStep(id, adopts))
    /\ WF_vars(\E id \in DOMAIN monitor.loops : CancelDeliver(id))
    /\ WF_vars(\E c \in DOMAIN monitor.coros : StopBegin(c))
    /\ WF_vars(\E c \in DOMAIN monitor.coros : StopResume(c))
    /\ WF_vars(\E c \in DOMAIN monitor.coros : RestartBegin(c))
    /\ WF_vars(\E c \in DOMAIN monitor.coros : RestartResume(c))
    /\ WF_vars(\E c \in DOMAIN monitor.coros : StartRun(c))

SpecMonitorLive == InitMonitor /\ [][NextMonitor]_vars /\ MonitorFairness

\* One inbound message: its texts are drawn from the pieces, and the message
\* components are built from them
InitText ==
    /\ webhooks = [c \in TextChannels |-> NoWebhook]
    /\ remote = [c \in TextChannels |-> <<>>]
    /\ nextId = FirstNewId
    /\ envDeletes = 0
    /\ task = [t \in Tasks |-> IdleTask]
    /\ budget = [t \in Tasks |-> 0]
    /\ poll = StoppedPoll
    /\ state_file = AbsentFile
    /\ monitor = StoppedMonitor
    /\ config = LoadedConfig
    /\ \/ \E u \in Usernames :
             message = Received(TRUE, u, <<"h">>, <<"m", "1">>, <<>>, 0)
       \/ \E c \in Contents, mid \in {<<>>, <<"m", "1">>},
             atts \in AttachmentLists, n \in {0, 1} :
             message = Received(FALSE, <<>>, c, mid, atts, n)
       \* send_webhook_message as any caller may call it
       \/ \E c \in {<<>>, <<"h">>}, n \in {0, 1} :
             message = [NoMessage EXCEPT !.stage = "built", !.username_out = <<"n">>,
                                         !.body = c, !.embeds = n]

NextText ==
    \/ Sanitize
    \/ BuildComponents
    \/ SendWebhookMessage

SpecText == InitText /\ [][NextText]_vars


----------------------------------------------------------------------------
(* The webhook cache *)

\* C1: two get_webhook calls for the same channel never have a
\* create_webhook call in flight at the same time, so that at most one is
\* issued while the channel has no usable relay webhook.
C1_OneCreateAtATime ==
    \A t1, t2 \in Tasks :
        (t1 # t2 /\ task[t1].pc = "create" /\ task[t2].pc = "create")
            => task[t1].channel # task[t2].channel

\* C2: when the fetch of the cached handle answers and the handle has a
\* token, get_webhook returns that handle, has issued no listing, create or
\* delete call, and leaves the cache and the platform as they are.
C2_FastPath ==
    [][\A t \in Tasks :
          (/\ task[t].pc = "probe"
           /\ task'[t].pc # "probe"
           /\ task'[t].probe_result = "ok"
           /\ task[t].webhook.token)
          => /\ task'[t].pc = "returned"
             /\ task'[t].status = "fast"
             /\ task'[t].ret = task[t].cached
             /\ task'[t].nlist = 0
             /\ task'[t].ncreate = 0
             /\ task'[t].ndelete = 0
             /\ webhooks' = webhooks
             /\ remote' = remote
             /\ nextId' = nextId]_vars

\* a get_webhook call has just returned the cached handle on the fast path
\* while the other coroutine is inside get_webhook too
C2_Witness ==
    \E t \in Tasks :
        /\ task[t].pc = "returned"
        /\ task[t].status = "fast"
        /\ task[t].ret = webhooks[task[t].channel]
        /\ \E u \in Tasks \ {t} : task[u].pc \in {"probe", "list", "create"}

\* C3: once the probe of the cached handle has failed (or the handle has no
\* token), get_webhook does not raise, does not fetch that handle a second
\* time and does not return it.
C3_DeadHandleDropped ==
    \A t \in Tasks :
        (\/ task[t].probe_result = "failed"
         \/ (task[t].probe_result = "ok" /\ ~task[t].cached.token))
        => /\ task[t].status # "raised"
           /\ ~task[t].reprobed
           /\ task[t].ret.id # task[t].cached.id

\* the name-matching webhooks of a listing
Matching(listing) == {k \in DOMAIN listing : NameMatches(listing[k])}

\* C4 (as claimed): create_webhook is called only when the listing holds no
\* name-matching webhook with a token.
C4_CreateOnlyWithoutTokenListed ==
    \A t \in Tasks :
        task[t].pc = "create"
        => \A k \in Matching(task[t].listing) : ~task[t].listing[k].token

\* C4 (amended): create_webhook is called exactly when every name-matching
\* webhook of the listing was turned down, each because its fetch failed or
\* it has no token, and each with a delete call; whatever the delete call
\* answers, the loop goes on; the first name-matching webhook whose fetch
\* answers and that has a token is cached and returned without a create call.
C4_Resolution ==
    [][\A t \in Tasks :
          LET a == task[t]
              b == task'[t]
          IN /\ b.pc = "create"
                => b.ncreate = 1 /\ b.ndelete = Cardinality(Matching(b.listing))
             /\ b.pc = "loop_delete"
                => /\ NameMatches(b.webhook)
                   /\ b.last_fetch = "failed" \/ ~b.webhook.token
             /\ (a.pc = "loop_fetch" /\ b.pc = "returned" /\ b.status = "found")
                => /\ b.last_fetch = "ok" /\ b.ret.token /\ NameMatches(b.ret)
                   /\ b.ncreate = 0
                   /\ webhooks'[b.channel] = b.ret
             /\ (a.pc = "loop_fetch" /\ b.pc # "loop_fetch" /\ b.last_fetch = "ok"
                 /\ a.webhook.token)
                => b.pc = "returned" /\ b.status = "found" /\ b.ret = a.webhook
             /\ (a.pc = "loop_delete" /\ b # a)
                => b.pc \in {"loop_fetch", "create"}]_vars

\* create_webhook is called although the listing holds a name-matching
\* webhook with a token: its fetch failed and it was deleted
C4_Witness ==
    \E t \in Tasks :
        /\ task[t].pc = "create"
        /\ task[t].ndelete > 0
        /\ \E k \in Matching(task[t].listing) : task[t].listing[k].token

\* C5: every handle in the cache, every handle get_webhook returns and every
\* handle a send goes through has a token.
C5_TokensNonEmpty ==
    /\ \A c \in TextChannels : Cached(c) => webhooks[c].token
    /\ \A t \in Tasks :
          /\ (task[t].pc = "returned" /\ task[t].ret # NoWebhook) => task[t].ret.token
          /\ task[t].pc = "send" => task[t].webhook # NoWebhook /\ task[t].webhook.token

\* send_webhook_message and send_notification are both sending, on a channel
\* whose listing held a relay-named webhook without a token
C5_Witness ==
    /\ task["relay"].pc = "send"
    /\ task["notify"].pc = "send"
    /\ \E k \in DOMAIN remote[1] : ~remote[1][k].token

\* C6: when listing or creating is refused with Forbidden, get_webhook
\* returns None after that one call and the cache holds no entry for the
\* channel.
C6_DeniedLeavesNoEntry ==
    \A t \in Tasks :
        (task[t].pc = "returned" /\ task[t].status \in {"list_forbidden", "create_forbidden"})
        => /\ task[t].ret = NoWebhook
           /\ ~Cached(task[t].channel)
           /\ task[t].nlist = 1
           /\ task[t].ncreate <= 1

----------------------------------------------------------------------------
(* The dispatcher *)

\* C7: process_message enters its loop body once for every destination, in
\* list order, whatever the earlier destinations did.
C7_EveryDestinationAttempted ==
    LET tk == task["relay"]
    IN /\ tk.attempts = [j \in 1..Len(tk.attempts) |-> j]
       /\ (tk.pc = "done" /\ tk.dest_channel_ids # <<>>)
          => Len(tk.attempts) = Len(tk.dest_channel_ids)

\* a dispatch to three destinations is over: the first and the last failed,
\* the one between them was sent
C7_Witness ==
    LET tk == task["relay"]
    IN /\ tk.pc = "done"
       /\ Len(tk.dest_channel_ids) = 3
       /\ tk.attempts = <<1, 2, 3>>
       /\ tk.delivered = 1

\* C8: with k sends answered out of N destinations, process_message returns
\* success iff k > 0, "Sent to k/N" when k > 0, and the failure count N
\* when k = 0.
C8_AnySuccess ==
    LET tk == task["relay"]
        n == Len(tk.dest_channel_ids)
        k == tk.delivered
    IN (tk.pc = "done" /\ n >= 1)
       => /\ tk.result.success <=> k > 0
          /\ k > 0 => /\ tk.result.summary = "Sent to"
                      /\ tk.result.count = k
                      /\ tk.result.total = n
          /\ k = 0 => /\ tk.result.summary = "Failed to send to all"
                      /\ tk.result.count = n

\* a dispatch is over in which some destinations failed and one was sent
C8_Witness ==
    LET tk == task["relay"]
    IN /\ tk.pc = "done"
       /\ tk.delivered > 0
       /\ tk.delivered < Len(tk.dest_channel_ids)
       /\ tk.result.success

\* C9: a payload without channel_id, or with an empty one, is rejected with
\* "Missing channel_id" before any registry lookup or webhook call; the
\* cache and the platform stay as they are.
C9_RejectsMissingChannel ==
    [][LET a == task["relay"]
           b == task'["relay"]
       IN (a.pc \in {"idle", "done"} /\ b # a /\ b.raw \in {"<missing>", ""})
          => /\ b.pc = "done"
             /\ b.result = Rejected("Missing channel_id")
             /\ b.lookups = 0
             /\ b.attempts = <<>>
             /\ webhooks' = webhooks
             /\ remote' = remote
             /\ nextId' = nextId]_vars

\* a payload without channel_id was rejected while the cache held a handle
C9_Witness ==
    LET tk == task["relay"]
    IN /\ tk.pc = "done"
       /\ tk.raw = "<missing>"
       /\ tk.result.summary = "Missing channel_id"
       /\ Cached(1)

----------------------------------------------------------------------------
(* The poll loop *)

\* the snapshot a poll cycle was given for a population
FetchedSnapshot(pop) == DictOf(<<>>, ListOf(poll.fetched[pop]))

\* a payload of one of the shapes the loop reads entities from, with
\* well-formed entities
WellFormed(r) ==
    /\ r.form = "list" \/ (r.form = "dict" /\ r.key \in {"own", "data"})
    /\ ~Malformed(ListOf(r))

\* both requests of the cycle were answered with well-formed entities
FetchSucceeded ==
    /\ poll.outcome # "none"
    /\ \A pop \in NotifTypes : WellFormed(poll.fetched[pop])

\* C10: at the end of a cycle whose fetch succeeded and that started from
\* the "no prior state" snapshot of a population, no event of that
\* population was emitted, the fetched snapshot of that population is the
\* new baseline, and save_state was called with it.
C10_ColdStartAdopts ==
    \A pop \in NotifTypes :
        (poll.pc = "sleep" /\ FetchSucceeded /\ poll.before[pop] = <<>>)
        => /\ \A j \in DOMAIN poll.emitted : poll.emitted[j].pop # pop
           /\ FetchedSnapshot(pop) =
                 (IF pop = "town" THEN poll.previous_towns ELSE poll.previous_nations)
           /\ poll.save_result # "none"
           /\ poll.save_result = "ok"
              => FetchedSnapshot(pop) =
                    (IF pop = "town" THEN state_file.towns.entries
                     ELSE state_file.nations.entries)

\* the events of a kind the cycle emitted for an identity of a population
EmittedFor(pop, kind, u) ==
    {j \in DOMAIN poll.emitted :
        /\ poll.emitted[j].pop = pop
        /\ poll.emitted[j].kind = kind
        /\ poll.emitted[j].uuid = u}

\* C11: a cycle that runs to its end from a snapshot an earlier cycle
\* adopted with zero entries emits exactly one Created event for every
\* identity of the fetched snapshot.
C11_EmptySnapshotIsDiffed ==
    \A pop \in NotifTypes :
        (/\ poll.pc = "sleep"
         /\ poll.outcome = "completed"
         /\ poll.had_baseline
         /\ poll.before[pop] = <<>>)
        => \A u \in Keys(FetchedSnapshot(pop)) :
              Cardinality(EmittedFor(pop, "created", u)) = 1

\* two snapshots hold the same identities under the same names
SameMapping(a, b) ==
    /\ Keys(a) = Keys(b)
    /\ \A u \in Keys(a) : NameOf(a, u) = NameOf(b, u)

\* the fetch of the cycle gave a well-formed snapshot of the population
Fetched(pop) == WellFormed(poll.fetched[pop])

\* C12: a cycle whose fetched snapshot of a population equals the previous
\* one, identity by identity and name by name, emits no event for that
\* population.
C12_SelfDiffIsEmpty ==
    \A pop \in NotifTypes :
        (Fetched(pop) /\ SameMapping(poll.before[pop], FetchedSnapshot(pop)))
        => \A j \in DOMAIN poll.emitted : poll.emitted[j].pop # pop

\* the second of two completed cycles that fetched the same non-empty towns
\* and nations is over and has notified nothing
C12_Witness ==
    /\ poll.pc = "sleep"
    /\ poll.outcome = "completed"
    /\ poll.had_baseline
    /\ \A pop \in NotifTypes :
          /\ poll.before[pop] # <<>>
          /\ SameMapping(poll.before[pop], FetchedSnapshot(pop))
    /\ Len(poll.before.town) = 2
    /\ poll.emitted = <<>>

\* the events of a population the cycle has emitted or is about to
CycleEvents(pop) ==
    LET sent == SelectSeq(poll.emitted, LAMBDA e : e.pop = pop)
        pending == IF poll.pc = "notifying" THEN Tail(poll.queue) ELSE poll.queue
    IN IF poll.phase = pop /\ poll.pc \in {"event", "notifying"}
       THEN sent \o pending
       ELSE sent

\* the diff of the population has run in this cycle and no exception has
\* cut the cycle short
DiffDone(pop) ==
    \/ poll.pc = "sleep" /\ poll.outcome = "completed"
    \/ /\ poll.pc \in {"event", "notifying"}
       /\ pop = "nation" => poll.phase = "nation"

\* the places of CycleEvents(pop) that hold an event of a kind for u
EventsFor(pop, kind, u) ==
    {j \in DOMAIN CycleEvents(pop) :
        CycleEvents(pop)[j].kind = kind /\ CycleEvents(pop)[j].uuid = u}

\* C13: the diff has a Renamed event for u iff u is in both snapshots under
\* different names; then it has exactly one, with the previous name as
\* old_name and the current name as new_name, and no Created or Removed
\* event for u.
C13_RenamedIffNameDiffers ==
    \A pop \in NotifTypes, u \in Seq2Set(Uuids) :
        DiffDone(pop) =>
            LET previous == poll.before[pop]
                current == FetchedSnapshot(pop)
                ren == EventsFor(pop, "renamed", u)
            IN /\ ren # {} <=> /\ u \in Keys(previous) \cap Keys(current)
                               /\ NameOf(previous, u) # NameOf(current, u)
               /\ ren # {} =>
                     /\ Cardinality(ren) = 1
                     /\ \A j \in ren :
                           /\ CycleEvents(pop)[j].old_name = NameOf(previous, u)
                           /\ CycleEvents(pop)[j].name = NameOf(current, u)
                     /\ EventsFor(pop, "created", u) = {}
                     /\ EventsFor(pop, "removed", u) = {}

\* a completed cycle has notified that town u1 was renamed from Ava to Cole
C13_Witness ==
    /\ poll.pc = "sleep"
    /\ poll.outcome = "completed"
    /\ \E j \in DOMAIN poll.emitted :
          poll.emitted[j] = [Event("town", "renamed", "u1", "Cole", "Ava")
                                EXCEPT !.leader = poll.emitted[j].leader]

\* C14: a diff has exactly one Created event, with the current name, for
\* each identity in current but not in previous, exactly one Removed event,
\* with the previous name, for each identity in previous but not in
\* current, and no Created or Removed event for any other identity.
C14_CreatedAndRemoved ==
    \A pop \in NotifTypes, u \in Seq2Set(Uuids) :
        (DiffDone(pop) /\ ShouldDiff(poll.before[pop])) =>
            LET previous == poll.before[pop]
                current == FetchedSnapshot(pop)
                cre == EventsFor(pop, "created", u)
                rem == EventsFor(pop, "removed", u)
            IN /\ Cardinality(cre) = IF u \in Keys(current) \ Keys(previous) THEN 1 ELSE 0
               /\ Cardinality(rem) = IF u \in Keys(previous) \ Keys(current) THEN 1 ELSE 0
               /\ \A j \in cre : CycleEvents(pop)[j].name = NameOf(current, u)
               /\ \A j \in rem : CycleEvents(pop)[j].name = NameOf(previous, u)

\* a completed cycle has notified a town as created and a nation as removed
C14_Witness ==
    /\ poll.pc = "sleep"
    /\ poll.outcome = "completed"
    /\ \E i, j \in DOMAIN poll.emitted :
          /\ poll.emitted[i].pop = "town" /\ poll.emitted[i].kind = "created"
          /\ poll.emitted[j].pop = "nation" /\ poll.emitted[j].kind = "removed"

\* the place of an identity in lexicographic order
Rank(u) == CHOOSE r \in DOMAIN Uuids : Uuids[r] = u

\* C15: within each of the three categories the events of a diff come in
\* lexicographic order of identity, whatever the order of the entities in
\* the API response.
C15_SortedWithinCategory ==
    \A pop \in NotifTypes :
        DiffDone(pop) =>
            \A i, j \in DOMAIN CycleEvents(pop) :
                (i < j /\ CycleEvents(pop)[i].kind = CycleEvents(pop)[j].kind)
                => Rank(CycleEvents(pop)[i].uuid) < Rank(CycleEvents(pop)[j].uuid)

\* the fetch of the cycle failed: a request was not answered with 200 and
\* JSON, or a payload is not a list or object of well-formed entities
FetchFailed ==
    /\ poll.outcome # "none"
    /\ \E pop \in NotifTypes : ~WellFormed(poll.fetched[pop])

\* C16: a cycle whose fetch failed emits no event, leaves previous_towns and
\* previous_nations as they were, does not call save_state and goes straight
\* to the sleep of a full poll interval.
C16_FailedFetchChangesNothing ==
    FetchFailed =>
        /\ poll.pc = "sleep"
        /\ poll.emitted = <<>>
        /\ poll.previous_towns = poll.before.town
        /\ poll.previous_nations = poll.before.nation
        /\ poll.save_result = "none"

\* the events of both diffs of the cycle, towns first
AllChanges ==
    (IF ShouldDiff(poll.before.town)
     THEN check_changes("town", poll.before.town, FetchedSnapshot("town"))
     ELSE <<>>)
    \o (IF ShouldDiff(poll.before.nation)
        THEN check_changes("nation", poll.before.nation, FetchedSnapshot("nation"))
        ELSE <<>>)

\* C17: while a notification of the cycle is pending the snapshots are the
\* ones the cycle started from and save_state has not been called; when the
\* cycle has adopted, every event of both diffs has been handed to
\* send_notification and send_notification has returned.
C17_AdoptAfterNotify ==
    /\ poll.pc \in {"event", "notifying"}
       => /\ poll.previous_towns = poll.before.town
          /\ poll.previous_nations = poll.before.nation
          /\ poll.save_result = "none"
          /\ poll.outcome = "none"
    /\ (poll.save_result # "none" \/ poll.outcome = "completed")
       => /\ poll.pc = "sleep"
          /\ poll.queue = <<>>
          /\ task["notify"].pc = "idle"
          /\ [j \in DOMAIN poll.emitted |-> [poll.emitted[j] EXCEPT !.leader = ""]]
                = AllChanges

\* a cycle has adopted and saved after notifying a town and a nation event
C17_Witness ==
    /\ poll.pc = "sleep"
    /\ poll.outcome = "completed"
    /\ poll.save_result = "ok"
    /\ state_file = JsonFile(JsonValue(TRUE, poll.previous_towns),
                             JsonValue(TRUE, poll.previous_nations))
    /\ \E i, j \in DOMAIN poll.emitted :
          poll.emitted[i].pop = "town" /\ poll.emitted[j].pop = "nation"

\* C18: a cycle that got as far as its diffs hands every event of both
\* diffs to send_notification, whatever happened while an earlier event was
\* notified.
C18_AllEventsAttempted ==
    (/\ poll.pc = "sleep"
     /\ poll.outcome \in {"raised", "completed"}
     /\ FetchSucceeded)
    => [j \in DOMAIN poll.emitted |-> [poll.emitted[j] EXCEPT !.leader = ""]]
          = AllChanges

----------------------------------------------------------------------------
(* Forced checks and stop *)

\* the loop tasks that have not ended
LiveLoops == {id \in DOMAIN monitor.loops : Live(monitor.loops[id])}

\* nothing but force-check requests followed the first on_ready
OnlyForceChecks ==
    /\ Len(monitor.sessions) = 1
    /\ \A c \in DOMAIN monitor.coros : monitor.coros[c].kind = "restart"

\* C19: whatever the number and the interleaving of force-check requests, at
\* most one poll-loop task is running at any time and no loop saves a
\* snapshot after a loop created later than it has saved one.
C19_ForcedCheckRaceFree ==
    OnlyForceChecks =>
        /\ Cardinality(LiveLoops) <= 1
        /\ ~monitor.stale_write

\* C20: once the stop() of a monitor that is not started again has returned,
\* no poll-loop task is left to fetch, diff, notify, adopt or save, and the
\* session of the monitor is closed.
C20_NothingSurvivesStop ==
    monitor.stopped =>
        /\ LiveLoops = {}
        /\ ~SessionOpen(monitor)

----------------------------------------------------------------------------
(* Reload *)

\* the one request since the first on_ready is a reload that enables the
\* monitor: its stop() and its start() are the coroutines 1 and 2
OneEnabledReload ==
    /\ monitor.requests = 1
    /\ Len(monitor.coros) = 2
    /\ monitor.coros[1].kind = "stop"
    /\ monitor.coros[2].kind = "start"

\* C21: a reload with monitoring enabled runs start() only after stop() has
\* returned, and once both have returned exactly one poll loop is running
\* and the session of the monitor is open.
C21_ReloadStopsThenStarts ==
    OneEnabledReload =>
        /\ monitor.coros[2].pc = "returned" => monitor.coros[1].pc = "returned"
        /\ (monitor.coros[1].pc = "returned" /\ monitor.coros[2].pc = "returned")
              => (Cardinality(LiveLoops) = 1 /\ SessionOpen(monitor))

----------------------------------------------------------------------------
(* The state file *)

\* C22: the state file is never left partially written: whenever a step
\* changes it, it then holds the complete record of the snapshot the cycle
\* has adopted.
C22_SaveIsAtomic ==
    [][state_file' # state_file =>
          state_file' = JsonFile(JsonValue(TRUE, poll'.previous_towns),
                                 JsonValue(TRUE, poll'.previous_nations))]_vars

\* previous_towns or previous_nations
Previous(pop) == IF pop = "town" THEN poll.previous_towns ELSE poll.previous_nations

\* the file gives load_state no mapping for the population: it is absent,
\* cannot be read or parsed, or holds something else than a dict for it
NoPriorState(file, pop) ==
    \/ file.kind # "json"
    \/ ~(IF pop = "town" THEN file.towns.is_dict ELSE file.nations.is_dict)

\* C23: through the first cycle after a start() whose load_state found no
\* mapping for a population in the file, the previous snapshot of that
\* population is the "no prior state" value and no event is emitted for it.
C23_LoadDegrades ==
    [][\A pop \in NotifTypes :
          (poll.first /\ poll.pc # "sleep" /\ NoPriorState(state_file, pop))
          => /\ Previous(pop) = <<>>
             /\ \A j \in DOMAIN poll'.emitted : poll'.emitted[j].pop # pop]_vars

----------------------------------------------------------------------------
(* Texts *)

\* C24: what sanitize_webhook_username returns holds none of the forbidden
\* substrings, neither starts nor ends with whitespace, is not empty and is
\* at most 80 characters long.
C24_SanitizedIsClean ==
    message.sanitized # NoText =>
        LET out == message.sanitized
        IN /\ \A j \in DOMAIN forbidden : ~Contains(out, forbidden[j])
           /\ out # <<>>
           /\ out[1] \notin Whitespace
           /\ out[Len(out)] \notin Whitespace
           /\ Len(out) <= UsernameCap

\* C25: the user name handed to webhook.send for a relayed message holds
\* none of the forbidden substrings, is not empty and is at most 80
\* characters long.
C25_SentUsernameIsSanitized ==
    (message.send_kwargs.sent /\ message.full_content # NoText) =>
        LET out == message.send_kwargs.username
        IN /\ \A j \in DOMAIN forbidden : ~Contains(out, forbidden[j])
           /\ out # <<>>
           /\ Len(out) <= UsernameCap

\* the last n characters of a text
Last(s, n) == SubSeq(s, Len(s) - n + 1, Len(s))

\* C26: the body build_message_content returns is at most 2000 characters
\* long; a body that would be longer is returned with exactly 2000
\* characters, the last three being "...", and any other body is returned
\* as it is.
C26_BodyWithinLimit ==
    message.full_content # NoText =>
        /\ Len(message.body) <= ContentCap
        /\ Len(message.full_content) > ContentCap
           => /\ Len(message.body) = ContentCap
              /\ Last(message.body, Len(Marker)) = Marker
              /\ SubSeq(message.body, 1, ContentCap - Len(Marker))
                    = SubSeq(message.full_content, 1, ContentCap - Len(Marker))
        /\ Len(message.full_content) <= ContentCap => message.body = message.full_content

\* a body one character over the limit has been cut, and one of exactly the
\* limit has been kept
C26_Witness ==
    /\ message.stage = "built"
    /\ Len(message.full_content) = ContentCap + 1
    /\ Len(message.body) = ContentCap

----------------------------------------------------------------------------
(* The cache after get_webhook and after a failed send *)

\* C28: when a get_webhook call that listed the channel returns a handle and
\* no other coroutine runs, the cache holds exactly that handle for the
\* channel, in place of any entry the call found there; when get_webhook
\* returns no handle, the cache holds no entry for the channel.
C28_CacheMatchesReturn ==
    LET tk == task["relay"]
    IN tk.pc = "returned" =>
        /\ tk.status \in {"found", "created"}
           => (tk.ret # NoWebhook /\ webhooks[tk.channel] = tk.ret)
        /\ tk.ret = NoWebhook => ~Cached(tk.channel)

\* get_webhook has evicted a cached handle whose probe failed and returns
\* the webhook it created, which is now the cache entry
C28_Witness ==
    LET tk == task["relay"]
    IN /\ tk.pc = "returned"
       /\ tk.status = "created"
       /\ tk.evicted # NoWebhook
       /\ webhooks[tk.channel] = tk.ret
       /\ tk.ret # tk.evicted

\* C29: when a send through a resolved handle fails because the webhook is
\* gone from the platform, the cache no longer holds that handle for the
\* channel once the send operation has returned.
C29_BrokenHandleEvicted ==
    [][\A t \in Tasks :
          (/\ task[t].pc = "send"
           /\ task'[t] # task[t]
           /\ task[t].webhook.id \notin RemoteIds)
          => webhooks'[task[t].channel] # task[t].webhook]_vars

----------------------------------------------------------------------------
(* The order of a dispatch *)

\* the relay coroutine is inside the attempt for a destination: in
\* get_webhook, or awaiting webhook.send
InAttempt(tk) ==
    tk.pc \in {"probe", "list", "loop_fetch", "loop_delete", "create", "returned", "send"}

\* C30: within one dispatch the destinations are attempted in list order
\* and one after the other: an attempt starts only in the step in which the
\* one before it has come back from its await, and the call in flight is
\* always the one for the destination attempted last.
C30_OneAfterTheOther ==
    [][LET a == task["relay"]
           b == task'["relay"]
       IN /\ \A j \in DOMAIN b.attempts : b.attempts[j] = j
          /\ Len(b.attempts) > Len(a.attempts)
             => a.pc \in {"idle", "done", "returned", "send"}
          /\ (InAttempt(a) /\ Len(b.attempts) > Len(a.attempts))
             => a.i = a.attempts[Len(a.attempts)]
          /\ InAttempt(b)
             => /\ b.attempts # <<>>
                /\ b.i = b.attempts[Len(b.attempts)]
                /\ b.channel = b.dest_channel_ids[b.i]]_vars

\* the send to the second destination is in flight after the send to the
\* first has been answered
C30_Witness ==
    LET tk == task["relay"]
    IN /\ tk.pc = "send"
       /\ tk.attempts = <<1, 2>>
       /\ tk.success_count + tk.fail_count = 1
       /\ tk.channel = tk.dest_channel_ids[2]

----------------------------------------------------------------------------
(* The detail lookup of a Created event *)

\* the lookups that give no leader: None, or a record without a usable one
FailedLookups == {"none", "malformed"}

\* C31: a Created event whose detail lookup gives no leader (network error,
\* non-200 status, empty or malformed record) is still notified, with the
\* leader "Unknown", and its lookup does not end the cycle: the event is
\* among those the cycle has emitted
C31_FailedLookupStillNotified ==
    poll.lookup.details \in FailedLookups =>
        \E j \in DOMAIN poll.emitted :
            /\ poll.emitted[j].kind = "created"
            /\ poll.emitted[j].pop = poll.lookup.pop
            /\ poll.emitted[j].uuid = poll.lookup.uuid
            /\ poll.emitted[j].leader = "Unknown"

----------------------------------------------------------------------------
(* A state file that cannot be written *)

\* the cycle has run to its end and its save_state failed
SaveFailed(p) == p.outcome = "completed" /\ p.save_result \in {"open_failed", "partial"}

\* C32: a failed write of the state file does not stop the loop: the cycle
\* ends with the fetched snapshot adopted in memory and the loop asleep, and
\* the cycle that follows starts from that snapshot, not from the file
C32_SaveFailureKeepsMemory ==
    [][ /\ (poll.pc # "sleep" /\ SaveFailed(poll')) =>
              /\ poll'.pc = "sleep"
              /\ poll'.previous_towns = poll'.current_towns
              /\ poll'.previous_nations = poll'.current_nations
        /\ (poll.pc = "sleep" /\ SaveFailed(poll) /\ poll'.pc = "fetch") =>
              /\ poll'.previous_towns = poll.current_towns
              /\ poll'.previous_nations = poll.current_nations ]_vars

----------------------------------------------------------------------------
(* Who is notified of a change event *)

\* the relay groups whose subscription flag for the population is set
SubscribedTo(notif_type) ==
    {n \in DOMAIN relay_groups :
        IF notif_type = "town" THEN relay_groups[n].earthmc_towns
        ELSE relay_groups[n].earthmc_nations}

\* the destination channels of a set of relay groups
DestinationsOf(groups) ==
    UNION {Seq2Set(get_destination_channel_ids(n)) : n \in groups}

\* send_notification is resolving a webhook for a channel or sending to it
Reaching(tk) ==
    tk.notif_type # "" /\ tk.pc \in {"probe", "list", "loop_fetch", "loop_delete",
                                     "create", "returned", "send"}

\* C33: a change event of a population is sent only to destination channels
\* of relay groups subscribed to that population: no webhook is resolved and
\* no send is made for any other channel, and with no subscribed group
\* nothing is resolved, sent or delivered
C33_OnlySubscribedGroups ==
    LET tk == task["notify"]
    IN /\ Reaching(tk) => tk.channel \in DestinationsOf(SubscribedTo(tk.notif_type))
       /\ (tk.notif_type # "" /\ SubscribedTo(tk.notif_type) = {}) =>
             ~Reaching(tk) /\ tk.delivered = 0

\* a nation event is being sent to channel 1, a destination of a subscribed
\* group, while channel 2 belongs only to groups without earthmc_nations
C33_Witness ==
    LET tk == task["notify"]
    IN /\ tk.pc = "send"
       /\ tk.notif_type = "nation"
       /\ tk.channel = 1
       /\ 2 \in DestinationsOf(DOMAIN relay_groups \ SubscribedTo("nation"))
       /\ 2 \notin DestinationsOf(SubscribedTo("nation"))

----------------------------------------------------------------------------
(* A population fetched with zero entities *)

\* C34: a cycle whose fetch succeeded and gave zero entities for a
\* population of which the previous snapshot holds identities is a
\* successful cycle: unless a notification raises, it runs to its end, emits
\* exactly one Removed event for every identity known before and adopts the
\* empty snapshot; it is not skipped as a failed fetch
C34_EmptyPopulationIsRemoval ==
    \A pop \in NotifTypes :
        (/\ poll.pc = "sleep"
         /\ FetchSucceeded
         /\ FetchedSnapshot(pop) = <<>>
         /\ poll.before[pop] # <<>>
         /\ poll.outcome # "raised")
        => /\ poll.outcome = "completed"
           /\ \A u \in Keys(poll.before[pop]) :
                 Cardinality(EmittedFor(pop, "removed", u)) = 1
           /\ (IF pop = "town" THEN poll.previous_towns ELSE poll.previous_nations) = <<>>

----------------------------------------------------------------------------
(* Cancellation of a running cycle *)

\* the loop tasks and the scheduled coroutines a run can hold
LoopIds == 1..(MaxRequests + 1)
CoroIds == 1..(2 * MaxRequests)

\* C35: a cancellation asked of a poll loop, by stop() or by a force-check,
\* ends that loop whatever await it is suspended at, and a stop() that
\* awaits the loop returns
C35_StopCompletes ==
    /\ \A id \in LoopIds :
          (id \in DOMAIN monitor.loops /\ monitor.loops[id].cancel)
          ~> (id \in DOMAIN monitor.loops /\ ~Live(monitor.loops[id]))
    /\ \A c \in CoroIds :
          (/\ c \in DOMAIN monitor.coros
           /\ monitor.coros[c].kind = "stop"
           /\ monitor.coros[c].pc = "awaiting")
          ~> (c \in DOMAIN monitor.coros /\ monitor.coros[c].pc = "returned")

----------------------------------------------------------------------------
(* The answer of the HTTP boundary *)

\* C36: a relay request of which some but not all destinations succeeded is
\* answered with a 200-level response whose status is "partial_success" and
\* whose message is the summary of process_message
C36_PartialSuccessAnswer ==
    LET tk == task["relay"]
    IN (tk.pc = "done" /\ tk.success_count > 0 /\ tk.fail_count > 0)
       => /\ relay(tk.result).code \in 200..299
          /\ relay(tk.result).status = "partial_success"
          /\ relay(tk.result).message = tk.result

----------------------------------------------------------------------------
(* start() while a loop is running *)

\* the sessions that were opened and not closed
OpenSessions == {s \in DOMAIN monitor.sessions : monitor.sessions[s] = "open"}

\* nothing but on_ready, and with it start(), has run so far
OnlyStarts == monitor.coros = <<>>

\* C37: for any sequence of start() calls at most one poll-loop task and one
\* session exist: a start() that finds a loop running creates neither a
\* second loop nor a second session
C37_OneLoopPerMonitor ==
    OnlyStarts =>
        /\ Cardinality(LiveLoops) <= 1
        /\ Cardinality(OpenSessions) <= 1

----------------------------------------------------------------------------
(* A cycle that fails after it has notified *)

\* C38: a change is notified at most once: no event that reached a channel
\* in a cycle that then ended without adopting the snapshot is sent again
\* by a later cycle
C38_NotifiedAtMostOnce ==
    \A j \in DOMAIN poll.sent : poll.sent[j] \notin poll.unadopted

----------------------------------------------------------------------------
(* Concurrent get_webhook calls on one channel *)

\* the step is the answer to the probe of call t, and it evicts
ProbeEvicts(t) ==
    /\ task[t].pc = "probe"
    /\ task'[t].pc # "probe"
    /\ webhooks'[task[t].channel] # webhooks[task[t].channel]

\* C39: however get_webhook calls on one channel interleave, no call raises,
\* and the eviction that follows a failed probe removes nothing but the
\* handle that was probed
C39_ConcurrentCallsAreSafe ==
    [][\A t \in Tasks :
          /\ task'[t].status # "raised"
          /\ ProbeEvicts(t) => webhooks[task[t].channel] = task[t].webhook]_vars

----------------------------------------------------------------------------
(* What full resolution touches *)

\* call t is in full resolution and the step is one of its steps
ResolutionStep(t) ==
    /\ task[t].pc \in {"list", "loop_fetch", "loop_delete", "create"}
    /\ task'[t] # task[t]

\* the relay-named webhooks of a listing before position k
OwnBefore(listing, k) ==
    {j \in 1..(k - 1) : listing[j].name = webhook_name}

\* C40: full resolution leaves alone every webhook whose name is not the
\* relay's, and every relay-named webhook listed after the first usable one:
\* a step of it deletes nothing but the relay-named webhook the loop is at,
\* caches and returns only relay-named webhooks, and when the loop stops at
\* a usable webhook it has tried to delete the relay-named ones before it
\* and no other
C40_OthersLeftUntouched ==
    [][\A t \in Tasks :
          ResolutionStep(t) =>
             LET tk == task[t]
                 c == tk.channel
             IN /\ \A j \in DOMAIN remote[c] :
                      (\A i \in DOMAIN remote'[c] : remote'[c][i] # remote[c][j])
                      => /\ remote[c][j].name = webhook_name
                         /\ tk.pc = "loop_delete"
                         /\ remote[c][j] = tk.listing[tk.k]
                /\ webhooks'[c] # webhooks[c] => webhooks'[c].name = webhook_name
                /\ task'[t].ret # NoWebhook =>
                      /\ task'[t].ret.name = webhook_name
                      /\ webhooks'[c] = task'[t].ret
                /\ task'[t].status = "found" =>
                      /\ task'[t].ret = tk.listing[tk.k]
                      /\ task'[t].ndelete = Cardinality(OwnBefore(tk.listing, tk.k))
                      /\ remote' = remote]_vars

\* a call has stopped at the first usable webhook of a listing that holds a
\* second relay-named webhook after it, which is still on the platform
C40_Witness ==
    /\ task["relay"].status = "found"
    /\ task["relay"].ret = PreUsable
    /\ PreUsable2 \in Seq2Set(remote[1])

============================================================================
